---- MODULE Spec2Model ----
(***************************************************************************)
(* Model of the QnA agent core of kily-agent                               *)
(* (src/backend/agents/qna_agent.py) and of the Socket.IO handlers that    *)
(* call it (src/backend/server.py, src/backend/managers/session_manager.py)*)
(*                                                                         *)
(* Texts (Python str values) are sequences of symbols.  A symbol is a      *)
(* one-character string, or an indivisible chunk standing for a literal    *)
(* of the source ("Analysis failed: ") or for an opaque piece of text.     *)
(***************************************************************************)
EXTENDS Integers, Sequences, FiniteSets, TLC

(***************************************************************************)
(* Bounds of the model                                                     *)
(***************************************************************************)
\* largest figure number the plotting library hands out
MaxFigNum == 2
\* times the clock may advance
MaxTicks == 2
\* entries of a session's chat history
MaxHistory == 2
\* chat sessions created
MaxSessions == 1

\* turns of the longest conversation handed to the synthesis call
MaxTurns == 8
\* symbols of the longest LLM reply handed to _extract_code
MaxContentLen == 5
\* messages one client sends while others are being handled
MaxRounds == 2
\* ChatStorage.add_message calls one caller makes
MaxAdds == 2
\* calls of AdvancedQnAAgent._execute_analysis_code
MaxExecs == 3

(***************************************************************************)
(* Text helpers (Python str operations)                                    *)
(***************************************************************************)
\* characters str.strip() removes and for which str.isspace() holds
Whitespace == {" ", "\n", "\t"}

\* `not text.strip()`
IsBlank(text) == \A i \in 1..Len(text) : text[i] \in Whitespace

RECURSIVE LStrip(_)
LStrip(text) ==
    IF text # <<>> /\ Head(text) \in Whitespace THEN LStrip(Tail(text)) ELSE text

RECURSIVE RStrip(_)
RStrip(text) ==
    IF text # <<>> /\ text[Len(text)] \in Whitespace
    THEN RStrip(SubSeq(text, 1, Len(text) - 1))
    ELSE text

\* str.strip()
Strip(text) == RStrip(LStrip(text))

\* sep.join(parts)
RECURSIVE Join(_, _)
Join(parts, sep) ==
    IF parts = <<>> THEN <<>>
    ELSE IF Len(parts) = 1 THEN parts[1]
    ELSE parts[1] \o sep \o Join(Tail(parts), sep)

\* `needle in text`
Contains(text, needle) ==
    \E i \in 0..(Len(text) - Len(needle)) :
        SubSeq(text, i + 1, i + Len(needle)) = needle

\* text.startswith(prefix)
StartsWith(text, prefix) ==
    /\ Len(prefix) <= Len(text)
    /\ SubSeq(text, 1, Len(prefix)) = prefix

SetMax(S) == CHOOSE m \in S : \A x \in S : x <= m

\* text.replace(old, new): every occurrence, scanning from the left
RECURSIVE Replace(_, _, _)
Replace(text, old, new) ==
    IF text = <<>> THEN <<>>
    ELSE IF StartsWith(text, old)
    THEN new \o Replace(SubSeq(text, Len(old) + 1, Len(text)), old, new)
    ELSE <<Head(text)>> \o Replace(Tail(text), old, new)

(***************************************************************************)
(* Generated Code.  A program is what exec() is given: either text that    *)
(* does not compile (exec raises SyntaxError before running anything), or  *)
(* a sequence of statements.  The statements are the ones the executor's   *)
(* behaviour depends on: print calls (at top level of the code, or inside  *)
(* a function the code defines and calls), plt.figure() and raise.         *)
(***************************************************************************)
PrintTop(args) == [op |-> "print", scope |-> "top", args |-> args, msg |-> <<>>]

PrintInFunc(args) == [op |-> "print", scope |-> "func", args |-> args, msg |-> <<>>]

NewFigure == [op |-> "figure", scope |-> "top", args |-> <<>>, msg |-> <<>>]

RaiseStmt(msg) == [op |-> "raise", scope |-> "top", args |-> <<>>, msg |-> msg]

\* name['x'] = 0: an in-place change of the dataframe the name is bound to
SetColumn(name) == [op |-> "setcolumn", scope |-> "top", args |-> << name >>, msg |-> <<>>]

Code(body) == [compiles |-> TRUE, error |-> <<>>, body |-> body]

\* str(e) of the SyntaxError exec() raises for the text 'def f(:'
SyntaxErrorMsg == <<"invalid syntax (<string>, line 1)">>

BadSyntax == [compiles |-> FALSE, error |-> SyntaxErrorMsg, body |-> <<>>]

\* str(e) of the exception a raise statement of the programs below raises
BoomMsg == <<"boom">>

P_print == Code(<< PrintTop(<< <<"4", "2">> >>) >>)

P_two == Code(<< PrintTop(<< <<"a">>, <<"b">> >>), PrintTop(<< <<"c">> >>) >>)

P_empty == Code(<< >>)

P_blank == Code(<< PrintTop(<< <<" ">> >>), PrintTop(<< >>) >>)

P_func == Code(<< PrintInFunc(<< <<"4", "2">> >>) >>)

P_mix == Code(<< PrintTop(<< <<"a">> >>), PrintInFunc(<< <<"b">> >>), PrintTop(<< <<"c">> >>) >>)

P_fig == Code(<< NewFigure, PrintTop(<< <<"s", "a", "v", "e", "d">> >>) >>)

P_fig2 == Code(<< NewFigure, NewFigure >>)

P_raise == Code(<< PrintTop(<< <<"a">> >>), RaiseStmt(BoomMsg) >>)

P_figraise == Code(<< NewFigure, RaiseStmt(BoomMsg) >>)

P_setcolumn ==
    Code(<< SetColumn(<<"s", "a", "l", "e", "s", "_", "d", "f">>),
            PrintTop(<< <<"d", "o", "n", "e">> >>) >>)

\* a program of more than 200 characters that prints more than 200
LongText == [i \in 1..201 |-> IF i = 1 THEN "a" ELSE IF i = 201 THEN "y" ELSE "x"]

LongProgram == "print('axx...xxy')"

P_long == Code(<< PrintTop(<< LongText >>) >>)

\* Generated Code is a str; exec() compiles the text.  The texts of the
\* model and what each compiles to.
Compile(code) ==
    CASE code = "print(42)" -> P_print
      [] code = "print(a,b);print(c)" -> P_two
      [] code = "pass" -> P_empty
      [] code = "print(' ');print()" -> P_blank
      [] code = "def f():print(42);f()" -> P_func
      [] code = "print(a);f_prints_b();print(c)" -> P_mix
      [] code = "plt.figure();print(saved)" -> P_fig
      [] code = "plt.figure();plt.figure()" -> P_fig2
      [] code = "print(a);raise" -> P_raise
      [] code = "plt.figure();raise" -> P_figraise
      [] code = "sales_df['x']=0;print(done)" -> P_setcolumn
      [] code = "def f(:" -> BadSyntax
      [] code = LongProgram -> P_long

\* code handed to run_custom_code by a caller
Programs ==
    {"print(42)", "print(a,b);print(c)", "pass", "print(' ');print()",
     "def f():print(42);f()", "print(a);f_prints_b();print(c)",
     "plt.figure();print(saved)", "plt.figure();plt.figure()",
     "print(a);raise", "plt.figure();raise", "sales_df['x']=0;print(done)",
     "def f(:"}

\* code the LLM may answer a synthesis call with (after _extract_code)
GenPrograms == {"print(42)", "pass", "plt.figure();raise"}

\* number of plt.figure() calls a program makes if it runs to its end
RECURSIVE CountFigures(_)
CountFigures(body) ==
    IF body = <<>> THEN 0
    ELSE (IF Head(body).op = "figure" THEN 1 ELSE 0) + CountFigures(Tail(body))

(***************************************************************************)
(* Sandbox Executor                                                        *)
(***************************************************************************)
\* custom_print(*args): one entry of output_buffer per call
custom_print(args) == Join(args, <<" ">>)

\* the builtin print(*args): one line on the process's standard output
builtin_print(args) == Join(args, <<" ">>)

\* plt.figure(): the new figure's number
NextFigNum(figs) == IF figs = {} THEN 1 ELSE SetMax(figs) + 1

\* the name _execute_analysis binds the dataframe of key filename to
clean_name(filename) == Replace(filename, <<".", "c", "s", "v">>, <<"_", "d", "f">>)

\* the dataframe entries of local_vars: for each name, the key of the
\* context whose dataframe (the object itself, not a copy) it is bound to.
\* No two keys of a context of the model have the same clean name.
LocalVars(ctx) ==
    [name \in {clean_name(filename) : filename \in DOMAIN ctx} |->
        CHOOSE filename \in DOMAIN ctx : clean_name(filename) = name]

\* str(e) of the NameError for a name local_vars does not hold
NameErrorMsg(name) == <<"name '">> \o name \o <<"' is not defined">>

\* the contents of a dataframe once the code has set its column x
WithColumn(contents) == IF contents = "rows" THEN "rows,x" ELSE contents

\* exec(code, {}, local_vars) with local_vars['print'] = custom_print.
\* A name used at top level is looked up in local_vars first; a name used
\* inside a function the code defines is looked up in the function's
\* globals, the fresh {} dict, and then in the builtins.
RECURSIVE ExecBody(_, _, _, _, _)
ExecBody(body, buf, out, figs, ctx) ==
    IF body = <<>>
    THEN [raised |-> FALSE, msg |-> <<>>, output_buffer |-> buf,
          stdout |-> out, fignums |-> figs, context_data |-> ctx]
    ELSE LET st == Head(body) IN
         CASE st.op = "print" /\ st.scope = "top" ->
                ExecBody(Tail(body), Append(buf, custom_print(st.args)), out, figs, ctx)
           [] st.op = "print" /\ st.scope = "func" ->
                ExecBody(Tail(body), buf, Append(out, builtin_print(st.args)), figs, ctx)
           [] st.op = "figure" ->
                ExecBody(Tail(body), buf, out, figs \cup {NextFigNum(figs)}, ctx)
           [] st.op = "setcolumn" ->
                LET name == st.args[1]
                    local_vars == LocalVars(ctx)
                IN  IF name \in DOMAIN local_vars
                    THEN ExecBody(Tail(body), buf, out, figs,
                                  [ctx EXCEPT ![local_vars[name]] = WithColumn(@)])
                    ELSE [raised |-> TRUE, msg |-> NameErrorMsg(name),
                          output_buffer |-> buf, stdout |-> out,
                          fignums |-> figs, context_data |-> ctx]
           [] st.op = "raise" ->
                [raised |-> TRUE, msg |-> st.msg, output_buffer |-> buf,
                 stdout |-> out, fignums |-> figs, context_data |-> ctx]

Exec(code, figs, ctx) ==
    LET prog == Compile(code) IN
    IF ~prog.compiles
    THEN [raised |-> TRUE, msg |-> prog.error, output_buffer |-> <<>>,
          stdout |-> <<>>, fignums |-> figs, context_data |-> ctx]
    ELSE ExecBody(prog.body, <<>>, <<>>, figs, ctx)

\* the file name _save_plots gives figure fig_num at time t (one-second
\* resolution of strftime('%Y%m%d_%H%M%S'))
PlotFile(t, fig_num) == <<t, fig_num>>

\* _save_plots(): for each open figure in increasing number: savefig, then
\* close.  savefig raising for figure fail_at ends the loop (the exception
\* is logged and swallowed); fail_at = 0 means no savefig call fails.
_save_plots(figs, files, t, fail_at) ==
    LET done == IF fail_at \in figs THEN {f \in figs : f < fail_at} ELSE figs
    IN  [fignums |-> figs \ done,
         artifacts |-> files \cup {PlotFile(t, f) : f \in done}]

CannedResult ==
    <<"Analysis completed. Check the artifacts directory for any generated visualizations.">>

\* _execute_analysis(code, context_data): the outcome of the call and the
\* state it leaves behind
_execute_analysis(code, ctx, figs, files, t, fail_at) ==
    LET r == Exec(code, figs, ctx) IN
    IF r.raised
    THEN [raised |-> TRUE, msg |-> r.msg, result |-> <<>>,
          output_buffer |-> r.output_buffer, stdout |-> r.stdout,
          open_figs |-> r.fignums, fignums |-> r.fignums,
          artifacts |-> files, context_data |-> r.context_data]
    ELSE LET saved == _save_plots(r.fignums, files, t, fail_at)
             joined == Join(r.output_buffer, <<"\n">>)
         IN  [raised |-> FALSE, msg |-> <<>>,
              result |-> IF IsBlank(joined) THEN CannedResult ELSE joined,
              output_buffer |-> r.output_buffer, stdout |-> r.stdout,
              open_figs |-> r.fignums, fignums |-> saved.fignums,
              artifacts |-> saved.artifacts, context_data |-> r.context_data]

(***************************************************************************)
(* Character case (str.upper / str.lower on ASCII letters)                 *)
(***************************************************************************)
LowerLetters ==
    <<"a", "b", "c", "d", "e", "f", "g", "h", "i", "j", "k", "l", "m",
      "n", "o", "p", "q", "r", "s", "t", "u", "v", "w", "x", "y", "z">>

UpperLetters ==
    <<"A", "B", "C", "D", "E", "F", "G", "H", "I", "J", "K", "L", "M",
      "N", "O", "P", "Q", "R", "S", "T", "U", "V", "W", "X", "Y", "Z">>

LowerChar(c) ==
    IF \E i \in 1..26 : UpperLetters[i] = c
    THEN LowerLetters[CHOOSE i \in 1..26 : UpperLetters[i] = c]
    ELSE c

UpperChar(c) ==
    IF \E i \in 1..26 : LowerLetters[i] = c
    THEN UpperLetters[CHOOSE i \in 1..26 : LowerLetters[i] = c]
    ELSE c

\* str.lower()
Lower(text) == [i \in 1..Len(text) |-> LowerChar(text[i])]

\* str.upper()
Upper(text) == [i \in 1..Len(text) |-> UpperChar(text[i])]

(***************************************************************************)
(* The LLM and the prompt files: what a call may come back with            *)
(***************************************************************************)
\* variant of Take: nothing is cut
Take_all(text, n) == text

\* text[:n]
Take(text, n) == SubSeq(text, 1, IF Len(text) < n THEN Len(text) ELSE n)

\* variant of LastN: the first n items
LastN_first(items, n) == SubSeq(items, 1, IF Len(items) < n THEN Len(items) ELSE n)

\* items[-n:]
LastN(items, n) ==
    SubSeq(items, IF Len(items) > n THEN Len(items) - n + 1 ELSE 1, Len(items))

\* the characters of a symbol; the chunks that stand in texts long enough
\* to be cut are spelt out
CharsOf(symbol) ==
    CASE symbol = "Error: " -> <<"E", "r", "r", "o", "r", ":", " ">>
      [] OTHER -> <<symbol>>

\* a text, character by character
RECURSIVE Chars(_)
Chars(text) ==
    IF text = <<>> THEN <<>>
    ELSE IF Len(text) = 1 THEN CharsOf(text[1])
    ELSE LET half == Len(text) \div 2
         IN  Chars(SubSeq(text, 1, half)) \o Chars(SubSeq(text, half + 1, Len(text)))

\* the characters of a piece of code
CodeChars(code) ==
    CASE code = "print(42)" -> <<"p", "r", "i", "n", "t", "(", "4", "2", ")">>
      [] code = "pass" -> <<"p", "a", "s", "s">>
      [] code = "plt.figure();raise" -> <<"p", "l", "t", ".", "f", "i", "g", "u", "r", "e", "(", ")", ";", "r", "a", "i", "s", "e">>
      [] code = "N/A" -> <<"N", "/", "A">>
      [] code = LongProgram -> <<"p", "r", "i", "n", "t", "(", "'">> \o LongText \o <<"'", ")">>
      [] OTHER -> <<code>>

\* literals of _generate_analysis_code: attempts surfaced, characters kept
\* of an attempt's code and result, chat turns passed on
attempt_window == 3

attempt_chars == 200

chat_window == 6

\* str(e) when a prompt template cannot be loaded or formatted
PromptErrorMsg == <<"Prompt file not found">>

\* str(e) when llm.invoke raises (network, auth, quota)
LLMErrorMsg == <<"Connection error.">>

\* _create_context_summary: the entries of the summary that name a dataset
_create_context_summary(ctx) ==
    [filename \in DOMAIN ctx |->
        [variable_name |-> filename, dataset |-> filename]]

\* the dataframe_names list _generate_analysis_code gives the system prompt,
\* by the key each name was made from
dataframe_names(ctx) ==
    [filename \in DOMAIN ctx |->
        Replace(filename, <<".", "c", "s", "v">>, <<"_", "d", "f">>)]

Ellipsis == <<".", ".", ".">>

SystemMessage(content) ==
    [type |-> "system", content |-> content, attempt_count |-> 0,
     execution_history |-> <<>>]

HumanMessage(content) ==
    [type |-> "human", content |-> content, attempt_count |-> 0,
     execution_history |-> <<>>]

AIMessage(content) ==
    [type |-> "ai", content |-> content, attempt_count |-> 0,
     execution_history |-> <<>>]

\* history_text: one entry per attempt of execution_history[-3:]
history_text(history) ==
    LET recent == LastN(history, attempt_window) IN
    [i \in 1..Len(recent) |->
        [iteration |-> recent[i].iteration,
         code |-> Take(CodeChars(recent[i].code), attempt_chars) \o Ellipsis,
         result |-> Take(Chars(recent[i].result), attempt_chars) \o Ellipsis,
         status |-> recent[i].status]]

\* the message made from the execution_history_context template
HistoryMessage(history) ==
    [type |-> "human", content |-> <<"execution_history_context">>,
     attempt_count |-> Len(history),
     execution_history |-> history_text(history)]

\* the messages made of chat turns: user and assistant turns, others skipped
RECURSIVE ChatMessages(_)
ChatMessages(turns) ==
    IF turns = <<>> THEN <<>>
    ELSE (CASE Head(turns).role = "user" -> <<HumanMessage(Head(turns).content)>>
            [] Head(turns).role = "assistant" -> <<AIMessage(Head(turns).content)>>
            [] OTHER -> <<>>)
         \o ChatMessages(Tail(turns))

\* the list _generate_analysis_code hands to llm.invoke
SynthesisMessages(q, hist, history) ==
    <<SystemMessage(<<"analysis_code_prompt">>)>>
    \o (IF history # <<>> THEN <<HistoryMessage(history)>> ELSE <<>>)
    \o ChatMessages(LastN(hist, chat_window))
    \o <<HumanMessage(q)>>

\* str(e) of a failed llm.invoke, at length
LongErrorMsg == [i \in 1..201 |-> IF i = 1 THEN "q" ELSE IF i = 201 THEN "z" ELSE "e"]

\* synthesis rounds with long replies
LongOutcomes ==
    {[kind |-> "llm_error", msg |-> LongErrorMsg, code |-> ""],
     [kind |-> "ok", msg |-> <<>>, code |-> LongProgram],
     [kind |-> "ok", msg |-> <<>>, code |-> "print(42)"]}

(***************************************************************************)
(* _extract_code: from the LLM's reply to the code                         *)
(***************************************************************************)
\* three backquotes followed by the word python
FenceOpen == "<fence>python"

\* three backquotes
Fence == "<fence>"

\* the symbols a reply is made of; each stands for the characters it shows
ContentAlphabet ==
    {FenceOpen, Fence, "\n", " ", "import os", "from m import f", "x = 1",
     "print(x)"}

\* content.split('\n')
RECURSIVE Split(_)
Split(content) ==
    IF \A i \in 1..Len(content) : content[i] # "\n"
    THEN <<content>>
    ELSE LET nl == CHOOSE i \in 1..Len(content) :
                       /\ content[i] = "\n"
                       /\ \A j \in 1..(i - 1) : content[j] # "\n"
         IN  <<SubSeq(content, 1, nl - 1)>>
                 \o Split(SubSeq(content, nl + 1, Len(content)))

\* positions at which the three backquotes stand
FenceAt(content) == {i \in 1..Len(content) : content[i] \in {Fence, FenceOpen}}

\* re.findall(r'```python\s*(.*?)\s*```', content, re.DOTALL)[0], if any:
\* from the first ```python, past the whitespace after it, up to the next
\* three backquotes, without the whitespace before them
FirstBlock(content) ==
    LET opens == {i \in 1..Len(content) : content[i] = FenceOpen} IN
    IF opens = {} THEN [found |-> FALSE, text |-> <<>>]
    ELSE LET open == CHOOSE i \in opens : \A j \in opens : i <= j
             rest == SubSeq(content, open + 1, Len(content))
             body == LStrip(rest)
             closes == FenceAt(body)
         IN  IF closes = {} THEN [found |-> FALSE, text |-> <<>>]
             ELSE LET close == CHOOSE i \in closes : \A j \in closes : i <= j
                  IN  [found |-> TRUE,
                       text |-> RStrip(SubSeq(body, 1, close - 1))]

\* line.strip().startswith('import ') or line.strip().startswith('from ')
StartsImport(line) ==
    Strip(line) # <<>> /\ Head(Strip(line)) \in {"import os", "from m import f"}

\* line.strip().startswith('#') or line.strip() == '' or
\* line.strip().startswith('print')
CommentBlankOrPrint(line) ==
    Strip(line) = <<>> \/ Head(Strip(line)) \in {"#", "print(x)"}

\* the for loop of _extract_code over the lines left, with in_code and
\* code_lines as they stand
RECURSIVE ScanLines(_, _, _)
ScanLines(lines, in_code, code_lines) ==
    IF lines = <<>> THEN code_lines
    ELSE LET line == Head(lines) IN
         IF StartsImport(line)
         THEN ScanLines(Tail(lines), TRUE, code_lines)
         ELSE IF in_code /\ CommentBlankOrPrint(line)
         THEN ScanLines(Tail(lines), in_code, Append(code_lines, line))
         ELSE IF in_code /\ Strip(line) # <<>>
         THEN ScanLines(Tail(lines), in_code, Append(code_lines, line))
         ELSE IF in_code /\ Strip(line) = <<>>
         THEN code_lines
         ELSE ScanLines(Tail(lines), in_code, code_lines)

_extract_code(content) ==
    IF FirstBlock(content).found
    THEN Strip(FirstBlock(content).text)
    ELSE Join(ScanLines(Split(content), FALSE, <<>>), <<"\n">>)

\* the replies of up to n symbols
RECURSIVE ContentsUpTo(_)
ContentsUpTo(n) ==
    IF n = 0 THEN { <<>> }
    ELSE LET shorter == ContentsUpTo(n - 1) IN
         shorter \cup {Append(t, c) : t \in {x \in shorter : Len(x) = n - 1},
                                      c \in ContentAlphabet}

\* a synthesis round: prompt construction fails, the LLM call fails, or the
\* LLM answers and _extract_code yields code
GenOutcomes ==
    {[kind |-> "prompt_error", msg |-> PromptErrorMsg, code |-> ""],
     [kind |-> "llm_error", msg |-> LLMErrorMsg, code |-> ""]}
    \cup {[kind |-> "ok", msg |-> <<>>, code |-> c] : c \in GenPrograms}

\* response.content of the narration call
NarrationReplies == { <<" ", "The answer is 42.", "\n">>, <<"\n">> }

NarrationOutcomes ==
    {[kind |-> "prompt_error", reply |-> <<>>],
     [kind |-> "llm_error", reply |-> <<>>]}
    \cup {[kind |-> "ok", reply |-> r] : r \in NarrationReplies}

COMPLETE == <<"C", "O", "M", "P", "L", "E", "T", "E">>

\* response.content of the judge call, as the loop meets it
JudgeReplies == { COMPLETE, <<"I", "N">> \o COMPLETE }

JudgeOutcomes ==
    {[kind |-> "llm_error", reply |-> <<>>]}
    \cup {[kind |-> "ok", reply |-> r] : r \in JudgeReplies}

(***************************************************************************)
(* QnAAgent: literals and the pieces of its methods                        *)
(***************************************************************************)
max_iterations == 5

NoDataMsg == <<"No context data available for analysis.">>

AnalysisFailedPrefix == <<"Analysis failed: ">>

CodeExecutionFailedPrefix == <<"Code execution failed: ">>

FallbackLeadIn == <<"Here's what I found:", "\n", "\n">>

ErrorPrefix == <<"Error: ">>

MaxIterationsMsg == <<"Analysis failed after maximum iterations">>

\* the value of analysis_code while the name is not in locals()
Unbound == "<unbound>"

Returned(text) == [kind |-> "value", text |-> text]

Propagated(msg) == [kind |-> "raised", text |-> msg]

NoReturn == [kind |-> "none", text |-> <<>>]

\* variant of IsEmptyContext: the check is missing
IsEmptyContext_never(ctx) == FALSE

\* `if not context_data`
IsEmptyContext(ctx) == DOMAIN ctx = {}

\* variant of analyze_except: the exception is raised again
analyze_except_reraise(msg) == Propagated(msg)

\* analyze_with_context: except Exception as e
analyze_except(msg) == Returned(AnalysisFailedPrefix \o msg)

\* variant of run_custom_except: a generic message
run_custom_except_generic(msg) == Returned(<<"Code execution failed">>)

\* run_custom_code: except Exception as e
run_custom_except(msg) == Returned(CodeExecutionFailedPrefix \o msg)

\* variant of _generate_conversational_response: the fallback apologises
\* and drops the analysis result
_generate_conversational_response_generic(outcome, analysis_result) ==
    IF outcome.kind = "ok"
    THEN Strip(outcome.reply)
    ELSE <<"Sorry, I could not summarise the analysis.">>

\* _generate_conversational_response: the try body returns the stripped
\* reply; any exception in it is answered with the fallback
_generate_conversational_response(outcome, analysis_result) ==
    IF outcome.kind = "ok"
    THEN Strip(outcome.reply)
    ELSE FallbackLeadIn \o analysis_result

\* variant of _check_completion: the token may stand anywhere in the reply
_check_completion_anywhere(outcome) ==
    IF outcome.kind = "ok"
    THEN Contains(Upper(Strip(outcome.reply)), COMPLETE)
    ELSE FALSE

\* variant of _check_completion: a failed call counts as complete
_check_completion_optimistic(outcome) ==
    IF outcome.kind = "ok"
    THEN StartsWith(Upper(Strip(outcome.reply)), COMPLETE)
    ELSE TRUE

\* _check_completion: a failed call counts as not complete
_check_completion(outcome) ==
    IF outcome.kind = "ok"
    THEN StartsWith(Upper(Strip(outcome.reply)), COMPLETE)
    ELSE FALSE

\* variant of LoopContinues: the bound is tested with <=
LoopContinues_inclusive(iter) == iter <= max_iterations

\* `while iteration < max_iterations`
LoopContinues(iter) == iter < max_iterations

\* the record the loop appends when the judge says not complete
IncompleteAttempt(iter, code, res) ==
    [iteration |-> iter, code |-> code, result |-> res, status |-> "incomplete"]

\* the record the loop's except branch appends
ErrorAttempt(iter, code, msg) ==
    [iteration |-> iter,
     code |-> IF code # Unbound THEN code ELSE "N/A",
     result |-> ErrorPrefix \o msg,
     status |-> "error"]

\* variant of ExhaustedResult: the generic text, whatever was attempted
ExhaustedResult_generic(history) == MaxIterationsMsg

\* what _execute_analysis_iterative returns once the while loop has ended
ExhaustedResult(history) ==
    IF history # <<>> THEN history[Len(history)].result ELSE MaxIterationsMsg

\* validate_query: the keywords a query must not contain
dangerous_keywords ==
    << <<"e", "x", "e", "c">>,
       <<"e", "v", "a", "l">>,
       <<"i", "m", "p", "o", "r", "t">>,
       <<"o", "p", "e", "n">>,
       <<"f", "i", "l", "e">>,
       <<"s", "y", "s", "t", "e", "m">>,
       <<"s", "u", "b", "p", "r", "o", "c", "e", "s", "s">> >>

\* variant of validate_query: the query is not lower-cased
validate_query_case_sensitive(q) ==
    IF q = <<>> \/ IsBlank(q)
    THEN FALSE
    ELSE ~ \E k \in 1..Len(dangerous_keywords) :
               Contains(q, dangerous_keywords[k])

\* variant of validate_query: only the emptiness check
validate_query_blank_only(q) == ~(q = <<>> \/ IsBlank(q))

validate_query(q) ==
    IF q = <<>> \/ IsBlank(q)
    THEN FALSE
    ELSE LET query_lower == Lower(q) IN
         ~ \E k \in 1..Len(dangerous_keywords) :
               Contains(query_lower, dangerous_keywords[k])

(***************************************************************************)
(* Inputs of the calls                                                     *)
(***************************************************************************)
\* messages a client sends: "max", "Open", " " and the empty message
Queries == { <<"m", "a", "x">>, <<"O", "p", "e", "n">>, <<" ">>, <<>> }

\* queries of a direct call of the agent
DirectQueries == { <<"m", "a", "x">> }

EmptyContext == [filename \in {} |-> "rows"]

\* the key ContextManager._load_context_files gives the file sales.csv
SalesKey == <<"s", "a", "l", "e", "s", ".", "c", "s", "v">>

SalesContext == [filename \in {SalesKey} |-> "rows"]

Contexts == {EmptyContext, SalesContext}

\* chat_history arguments of a direct call of the agent
Histories ==
    { <<>>,
      << [role |-> "user", content |-> <<"m", "a", "x">>],
         [role |-> "assistant", content |-> <<"The answer is 42.">>] >> }

\* the i-th turn of a conversation
TurnNames == <<"1", "2", "3", "4", "5", "6", "7", "8", "9", "10">>

Turn(i) ==
    [role |-> IF i % 2 = 1 THEN "user" ELSE "assistant",
     content |-> <<"t", TurnNames[i]>>]

\* chat_history arguments up to MaxTurns turns long, and one holding a
\* turn that is neither the user's nor the assistant's
SynthesisHistories ==
    {[i \in 1..n |-> Turn(i)] : n \in 0..MaxTurns}
    \cup {[i \in 1..MaxTurns |->
              IF i = MaxTurns - 1
              THEN [role |-> "system", content |-> <<"n", "o", "t", "e">>]
              ELSE Turn(i)]}

\* seconds the clock may advance by in one step: within a session's
\* timeout, and beyond it
TickSteps == {1, 901}

\* longer steps of the clock: the timeout to the second, and a day
SleepSteps == {900, 86400}

(***************************************************************************)
(* State                                                                   *)
(***************************************************************************)
VARIABLES
    pc,                 \* where the agent call in progress stands
    entry,              \* the entry point of the agent call in progress
    caller,             \* "direct", or the server handler that made the call
    query,              \* arguments of the call
    context_data,
    chat_history,
    iteration,          \* locals of _execute_analysis_iterative
    execution_history,
    analysis_code,      \* local of both analysis entry points
    result,
    ret,                \* what the call returned to its caller
    llm_calls,          \* self.llm.invoke calls of this agent call, per role
    exec_calls,         \* _execute_analysis calls of this agent call
    last_llm,           \* the latest LLM round of this agent call and how it went
    system_prompt,      \* what the latest synthesis call told the LLM about the datasets
    messages,           \* the list the latest synthesis call handed to llm.invoke
    judged,             \* the latest _check_completion call and its verdict
    last_exec,          \* the latest _execute_analysis call and its outcome
    fignums,            \* plt.get_fignums(): the open figures
    artifacts,          \* files in artifacts_dir
    now,                \* datetime.now(), in seconds
    ticks,              \* clock advances made so far
    active_sessions,    \* SessionManager.active_sessions
    sessions_created,   \* sessions created so far (ids are never reused)
    voice_service,      \* whether QnABackend.voice_service is set
    request,            \* the Socket.IO event being handled
    events,             \* what the handler of that event has emitted
    received,           \* the latest event received and the query it carried
    credentials,        \* user_id and profile_id of the latest authenticate event
    validation,         \* a call of validate_query and its result
    lookup,             \* a call of SessionManager.get_session and its outcome
    extraction,         \* a call of _extract_code and what it returned
    handlers,           \* the send_message handlers running side by side
    context_dirs,       \* the context directories on disk and the files in each
    context_call,       \* the latest get_context_for_profile call and its outcome
    chat_files,         \* ChatStorage: chat_messages.json and chat_sessions.json
    writers,            \* the requests inside ChatStorage.add_message
    sys_stdout,         \* sys.stdout of the process running AdvancedQnAAgent
    code_call           \* the _execute_analysis_code calls made, and the latest

frame == <<entry, caller, query, context_data, chat_history, iteration,
           execution_history, analysis_code, result, ret, llm_calls,
           exec_calls, last_llm, system_prompt, messages, judged>>

plots == <<fignums, artifacts>>

clock == <<now, ticks>>

server == <<active_sessions, sessions_created, voice_service, request,
            events, received, credentials>>

\* records of calls made on their own
\* records of the calls made outside the backend's request handling
extras == <<extraction, handlers, context_dirs, context_call, chat_files,
            writers, sys_stdout, code_call>>

probes == <<validation, lookup, extras>>

vars == <<pc, frame, last_exec, plots, clock, server, probes>>

ZeroCalls == [synth |-> 0, judge |-> 0, narr |-> 0]

NoLLM == [role |-> "none", kind |-> "none"]

NoneReceived == [handler |-> "none", has_query |-> FALSE, message |-> <<>>]

NoValidation == [done |-> FALSE, query |-> <<>>, ok |-> FALSE]

NoSessions == [sid \in {} |-> 0]

NoRequest == [handler |-> "none", session_id |-> 0]

NoExec ==
    [called |-> FALSE, code |-> "", before |-> {}, raised |-> FALSE,
     msg |-> <<>>, result |-> <<>>, output_buffer |-> <<>>, stdout |-> <<>>,
     fignums |-> {}, open_figs |-> {}, files_before |-> {},
     context_before |-> <<>>, local_vars |-> <<>>]

NoPrompt == [sent |-> FALSE, context_summary |-> <<>>, dataframe_names |-> <<>>]

NoMessages == <<>>

NoVerdict == [called |-> FALSE, kind |-> "none", reply |-> <<>>,
              is_complete |-> FALSE]

NoCredentials == [user_id |-> "", profile_id |-> ""]

\* base_path as ContextManager.__init__ leaves it: no dated directory
NoDirs == [path \in {} |-> {}]

NoContextCall == [called |-> FALSE, profile_id |-> "", raised |-> FALSE,
                  context_data |-> EmptyContext, unreadable |-> {}]

\* a JSON file holding a dict: readable, or cut short by an open(..., 'w')
\* whose dump has not happened yet
JsonFile(data) == [ok |-> TRUE, data |-> data]

EmptyDict == [key \in {} |-> <<>>]

Truncated == [ok |-> FALSE, data |-> EmptyDict]

\* _init_storage_files: both files hold {}
EmptyFiles == [messages |-> JsonFile(EmptyDict), sessions |-> JsonFile(EmptyDict)]

\* requests to the data service that add messages side by side
Writers == {"w1", "w2"}

IdleWriter == [pc |-> "idle", session_id |-> "", message |-> <<>>,
               messages |-> EmptyDict, sessions |-> EmptyDict,
               returned |-> <<>>]

NoWriters == [w \in Writers |-> IdleWriter]

\* the stream the process starts with
Console == [kind |-> "console", id |-> 0]

\* the n-th io.StringIO() made
StringIO(n) == [kind |-> "StringIO", id |-> n]

NoCodeCall == [calls |-> 0, code |-> "", before |-> Console,
               raised |-> FALSE, returned |-> <<>>]

\* clients whose send_message events are handled side by side
Clients == {"c1", "c2"}

IdleHandler == [pc |-> "idle", message |-> <<>>, at |-> 0, rounds |-> 0,
                events |-> <<>>]

NoHandlers == [c \in Clients |-> IdleHandler]

NoExtraction == [done |-> FALSE, content |-> <<>>, code |-> <<>>]

NoLookup == [called |-> FALSE, at |-> 0, existed |-> FALSE, elapsed |-> 0,
             found |-> FALSE, kept |-> FALSE, last_activity |-> 0]

\* the parts of the state outside the backend's request handling, unused
ExtrasAtRest ==
    /\ extraction = NoExtraction
    /\ handlers = NoHandlers
    /\ context_dirs = NoDirs
    /\ context_call = NoContextCall
    /\ chat_files = EmptyFiles
    /\ writers = NoWriters
    /\ sys_stdout = Console
    /\ code_call = NoCodeCall

InitAgent ==
    /\ pc = "idle"
    /\ entry = "none"
    /\ caller = "none"
    /\ query = <<>>
    /\ context_data = EmptyContext
    /\ chat_history = <<>>
    /\ iteration = 0
    /\ execution_history = <<>>
    /\ analysis_code = Unbound
    /\ result = <<>>
    /\ ret = NoReturn
    /\ llm_calls = ZeroCalls
    /\ exec_calls = 0
    /\ last_llm = NoLLM
    /\ system_prompt = NoPrompt
    /\ messages = NoMessages
    /\ judged = NoVerdict
    /\ last_exec = NoExec
    /\ fignums = {}
    /\ artifacts = {}
    /\ now = 0
    /\ ticks = 0
    /\ active_sessions = NoSessions
    /\ sessions_created = 0
    /\ voice_service = FALSE
    /\ request = NoRequest
    /\ events = <<>>
    /\ received = NoneReceived
    /\ credentials = NoCredentials
    /\ validation = NoValidation
    /\ lookup = NoLookup
    /\ ExtrasAtRest

\* the figures a program opens still get numbers within the bound
FigRoom(code) ==
    (IF fignums = {} THEN 0 ELSE SetMax(fignums))
        + CountFigures(Compile(code).body) <= MaxFigNum

\* entering a method of the agent: fresh locals
Enter(name, who, q, ctx, hist) ==
    /\ entry' = name
    /\ caller' = who
    /\ query' = q
    /\ context_data' = ctx
    /\ chat_history' = hist
    /\ iteration' = 0
    /\ execution_history' = <<>>
    /\ result' = <<>>
    /\ llm_calls' = ZeroCalls
    /\ exec_calls' = 0
    /\ last_llm' = NoLLM
    /\ system_prompt' = NoPrompt
    /\ messages' = NoMessages
    /\ judged' = NoVerdict
    /\ last_exec' = NoExec

\* analyze_with_context up to its first call
BeginAnalyze(who, q, ctx, hist) ==
    /\ Enter("analyze_with_context", who, q, ctx, hist)
    /\ analysis_code' = Unbound
    /\ IF IsEmptyContext(ctx)
       THEN pc' = "returned" /\ ret' = Returned(NoDataMsg)
       ELSE pc' = "generate" /\ ret' = NoReturn

\* variant of OnException: analyze_with_context goes on to the narration
OnException_narrate(msg) ==
    CASE entry = "analyze_with_context" ->
            /\ pc' = "narrate"
            /\ UNCHANGED <<ret, execution_history>>
      [] entry = "run_custom_code" ->
            /\ ret' = run_custom_except(msg)
            /\ pc' = "returned"
            /\ UNCHANGED execution_history
      [] entry = "_execute_analysis_iterative" ->
            /\ execution_history' =
                   Append(execution_history,
                          ErrorAttempt(iteration, analysis_code, msg))
            /\ pc' = "loop"
            /\ UNCHANGED ret

\* variant of OnException: the iterative loop gives up at the first error
OnException_abort(msg) ==
    CASE entry = "analyze_with_context" ->
            /\ ret' = analyze_except(msg)
            /\ pc' = "returned"
            /\ UNCHANGED execution_history
      [] entry = "run_custom_code" ->
            /\ ret' = run_custom_except(msg)
            /\ pc' = "returned"
            /\ UNCHANGED execution_history
      [] entry = "_execute_analysis_iterative" ->
            /\ ret' = Returned(ErrorPrefix \o msg)
            /\ pc' = "returned"
            /\ UNCHANGED execution_history

\* an exception reaches the except clause of the entry point
OnException(msg) ==
    CASE entry = "analyze_with_context" ->
            /\ ret' = analyze_except(msg)
            /\ pc' = "returned"
            /\ UNCHANGED execution_history
      [] entry = "run_custom_code" ->
            /\ ret' = run_custom_except(msg)
            /\ pc' = "returned"
            /\ UNCHANGED execution_history
      [] entry = "_execute_analysis_iterative" ->
            /\ execution_history' =
                   Append(execution_history,
                          ErrorAttempt(iteration, analysis_code, msg))
            /\ pc' = "loop"
            /\ UNCHANGED ret

(***************************************************************************)
(* Direct calls of the agent's entry points                                *)
(***************************************************************************)
Call_analyze_with_context ==
    /\ pc = "idle"
    /\ request.handler = "none"
    /\ \E q \in Queries, ctx \in Contexts, hist \in Histories :
           BeginAnalyze("direct", q, ctx, hist)
    /\ UNCHANGED <<plots, clock, server, probes>>

Call_execute_analysis_iterative ==
    /\ pc = "idle"
    /\ request.handler = "none"
    /\ \E q \in DirectQueries, ctx \in Contexts, hist \in Histories :
           Enter("_execute_analysis_iterative", "direct", q, ctx, hist)
    /\ analysis_code' = Unbound
    /\ ret' = NoReturn
    /\ pc' = "loop"
    /\ UNCHANGED <<plots, clock, server, probes>>

Call_run_custom_code ==
    /\ pc = "idle"
    /\ request.handler = "none"
    /\ \E code \in Programs, ctx \in Contexts :
           /\ FigRoom(code)
           /\ Enter("run_custom_code", "direct", <<>>, ctx, <<>>)
           /\ analysis_code' = code
    /\ ret' = NoReturn
    /\ pc' = "execute"
    /\ UNCHANGED <<plots, clock, server, probes>>

(***************************************************************************)
(* Steps of the agent                                                      *)
(***************************************************************************)
\* `while iteration < max_iterations: iteration += 1`, and the return
\* after the loop.  The records of what the iteration before executed and
\* judged end with it, and so does the message list of its synthesis call.
LoopTest ==
    /\ pc = "loop"
    /\ IF LoopContinues(iteration)
       THEN /\ iteration' = iteration + 1
            /\ pc' = "generate"
            /\ UNCHANGED ret
       ELSE /\ pc' = "returned"
            /\ ret' = Returned(ExhaustedResult(execution_history))
            /\ UNCHANGED iteration
    /\ judged' = NoVerdict
    /\ last_exec' = NoExec
    /\ messages' = NoMessages
    /\ UNCHANGED <<entry, caller, query, context_data, chat_history,
                   execution_history, analysis_code, result, llm_calls,
                   exec_calls, last_llm, system_prompt, plots, clock, server,
                   probes>>

\* _generate_analysis_code, answered with one of the given outcomes
GenerateWith(outcomes) ==
    /\ pc = "generate"
    /\ \E o \in outcomes :
           /\ o.kind = "ok" => FigRoom(o.code)
           /\ last_llm' = [role |-> "synthesis", kind |-> o.kind]
           /\ llm_calls' = IF o.kind = "prompt_error"
                           THEN llm_calls
                           ELSE [llm_calls EXCEPT !.synth = @ + 1]
           /\ system_prompt' =
                  IF o.kind = "prompt_error"
                  THEN NoPrompt
                  ELSE [sent |-> TRUE,
                        context_summary |-> _create_context_summary(context_data),
                        dataframe_names |-> dataframe_names(context_data)]
           /\ messages' =
                  IF o.kind = "prompt_error"
                  THEN NoMessages
                  ELSE SynthesisMessages(query, chat_history, execution_history)
           /\ IF o.kind = "ok"
              THEN /\ analysis_code' = o.code
                   /\ pc' = "execute"
                   /\ UNCHANGED <<ret, execution_history>>
              ELSE /\ OnException(o.msg)
                   /\ UNCHANGED analysis_code
    /\ UNCHANGED <<entry, caller, query, context_data, chat_history,
                   iteration, result, exec_calls, judged, last_exec, plots,
                   clock, server, probes>>

Generate == GenerateWith(GenOutcomes)

\* _execute_analysis, and what its caller does with the outcome; the
\* message list of the synthesis call before it is gone
Execute ==
    /\ pc = "execute"
    /\ \E fail_at \in 0..MaxFigNum :
           LET r == _execute_analysis(analysis_code, context_data, fignums,
                                      artifacts, now, fail_at)
           IN  /\ fignums' = r.fignums
               /\ artifacts' = r.artifacts
               /\ context_data' = r.context_data
               /\ active_sessions' =
                      IF request.session_id \in DOMAIN active_sessions
                      THEN [active_sessions EXCEPT
                               ![request.session_id].context_data = r.context_data]
                      ELSE active_sessions
               /\ last_exec' =
                      [called |-> TRUE, code |-> analysis_code,
                       before |-> fignums, raised |-> r.raised,
                       msg |-> r.msg, result |-> r.result,
                       output_buffer |-> r.output_buffer,
                       stdout |-> r.stdout, fignums |-> r.fignums,
                       open_figs |-> r.open_figs, files_before |-> artifacts,
                       context_before |-> context_data,
                       local_vars |-> LocalVars(context_data)]
               /\ IF r.raised
                  THEN /\ OnException(r.msg)
                       /\ UNCHANGED result
                  ELSE /\ result' = r.result
                       /\ CASE entry = "analyze_with_context" ->
                                   /\ pc' = "narrate"
                                   /\ UNCHANGED <<ret, execution_history>>
                            [] entry = "_execute_analysis_iterative" ->
                                   /\ pc' = "judge"
                                   /\ UNCHANGED <<ret, execution_history>>
                            [] entry = "run_custom_code" ->
                                   /\ pc' = "returned"
                                   /\ ret' = Returned(r.result)
                                   /\ UNCHANGED execution_history
    /\ exec_calls' = exec_calls + 1
    /\ messages' = NoMessages
    /\ UNCHANGED <<entry, caller, query, chat_history, iteration,
                   analysis_code, llm_calls, last_llm, system_prompt, judged,
                   clock, sessions_created, voice_service, request, events,
                   received, credentials, probes>>

\* _check_completion, and the loop's two branches on its verdict
Judge ==
    /\ pc = "judge"
    /\ \E o \in JudgeOutcomes :
           /\ last_llm' = [role |-> "judge", kind |-> o.kind]
           /\ judged' = [called |-> TRUE, kind |-> o.kind, reply |-> o.reply,
                         is_complete |-> _check_completion(o)]
           /\ IF _check_completion(o)
              THEN /\ ret' = Returned(result)
                   /\ pc' = "returned"
                   /\ UNCHANGED execution_history
              ELSE /\ execution_history' =
                          Append(execution_history,
                                 IncompleteAttempt(iteration, analysis_code, result))
                   /\ pc' = "loop"
                   /\ UNCHANGED ret
    /\ llm_calls' = [llm_calls EXCEPT !.judge = @ + 1]
    /\ UNCHANGED <<entry, caller, query, context_data, chat_history,
                   iteration, analysis_code, result, exec_calls, system_prompt, messages,
                   last_exec, plots, clock, server, probes>>

\* _generate_conversational_response; analyze_with_context returns its value
Narrate ==
    /\ pc = "narrate"
    /\ \E o \in NarrationOutcomes :
           /\ ret' = Returned(_generate_conversational_response(o, result))
           /\ last_llm' = [role |-> "narration", kind |-> o.kind]
           /\ llm_calls' = IF o.kind = "prompt_error"
                           THEN llm_calls
                           ELSE [llm_calls EXCEPT !.narr = @ + 1]
    /\ pc' = "returned"
    /\ UNCHANGED <<entry, caller, query, context_data, chat_history,
                   iteration, execution_history, analysis_code, result,
                   exec_calls, system_prompt, messages, judged, last_exec, plots, clock,
                   server, probes>>

\* a direct caller takes the returned value; the call's frame is gone
ReturnToCaller ==
    /\ pc = "returned"
    /\ caller = "direct"
    /\ pc' = "idle"
    /\ entry' = "none"
    /\ caller' = "none"
    /\ query' = <<>>
    /\ context_data' = EmptyContext
    /\ chat_history' = <<>>
    /\ iteration' = 0
    /\ execution_history' = <<>>
    /\ analysis_code' = Unbound
    /\ result' = <<>>
    /\ ret' = NoReturn
    /\ llm_calls' = ZeroCalls
    /\ exec_calls' = 0
    /\ last_llm' = NoLLM
    /\ system_prompt' = NoPrompt
    /\ messages' = NoMessages
    /\ judged' = NoVerdict
    /\ last_exec' = NoExec
    /\ UNCHANGED <<plots, clock, server, probes>>

(***************************************************************************)
(* SessionManager                                                          *)
(***************************************************************************)
\* SessionManager.__init__: session_timeout
session_timeout == 900

\* timedelta.seconds of a non-negative difference: the seconds left over
\* once the whole days are taken out
TimedeltaSeconds(d) == d % 86400

\* get_session: the session returned (if any) and active_sessions after it
get_session(sessions, sid, t) ==
    IF sid \notin DOMAIN sessions
    THEN [found |-> FALSE, sessions |-> sessions]
    ELSE IF TimedeltaSeconds(t - sessions[sid].last_activity) > session_timeout
    THEN [found |-> FALSE,
          sessions |-> [x \in DOMAIN sessions \ {sid} |-> sessions[x]]]
    ELSE [found |-> TRUE,
          sessions |-> [sessions EXCEPT ![sid].last_activity = t]]

\* cleanup_expired_sessions: active_sessions afterwards
cleanup_expired_sessions(sessions, t) ==
    LET expired_sessions ==
            {sid \in DOMAIN sessions :
                TimedeltaSeconds(t - sessions[sid].last_activity) > session_timeout}
    IN  [sid \in DOMAIN sessions \ expired_sessions |-> sessions[sid]]

\* add_message: active_sessions afterwards
add_message(sessions, sid, message, t) ==
    LET got == get_session(sessions, sid, t) IN
    IF ~got.found
    THEN got.sessions
    ELSE [got.sessions EXCEPT ![sid].chat_history = Append(@, message),
                              ![sid].last_activity = t]

\* create_session: the new entry of active_sessions
NewSession(user_id, profile_id, ctx, t) ==
    [user_id |-> user_id, profile_id |-> profile_id,
     last_activity |-> t, chat_history |-> <<>>, context_data |-> ctx]

\* the methods class SessionManager defines
SessionManagerMethods ==
    {"create_session", "get_session", "add_message", "get_chat_history",
     "get_context_data", "cleanup_expired_sessions", "_create_chat_record",
     "_store_chat_message", "get_user_sessions", "end_session",
     "get_session_stats"}

\* str(e) of the AttributeError a call of a missing method raises
NoAttributeMsg(name) ==
    <<"'SessionManager' object has no attribute '", name, "'">>

\* the methods class QnABackend defines (_validate_user is a function
\* local to setup_routes, not a method)
QnABackendMethods == {"__init__", "setup_routes", "run"}

\* str(e) of the AttributeError for a missing attribute of the backend
BackendNoAttributeMsg(name) ==
    <<"'QnABackend' object has no attribute '", name, "'">>

\* users the API knows
Users == {"u1"}

\* _validate_user: whether api_client.get_user finds the user
_validate_user(user_id) == user_id \in Users

(***************************************************************************)
(* Socket.IO handlers of QnABackend                                        *)
(***************************************************************************)
\* an entry of a session's chat_history ('timestamp' is left out: no code
\* of the server or the agent reads it)
ChatMessage(type, content, input_method) ==
    [type |-> type, content |-> content, input_method |-> input_method]

\* the loop building formatted_history from the session's chat_history
RECURSIVE FormatHistory(_)
FormatHistory(history) ==
    IF history = <<>> THEN <<>>
    ELSE LET msg == Head(history)
             rest == FormatHistory(Tail(history))
         IN  IF msg.type \in {"user", "assistant"}
             THEN <<[role |-> msg.type, content |-> msg.content]>> \o rest
             ELSE rest

Event(name, payload) == [name |-> name, payload |-> payload]

\* emit('error', {'message': ...})
ErrorEvent(message) == Event("error", message)

\* the handler is over: no request and no agent call in progress
HandlerDone ==
    /\ pc' = "idle"
    /\ request' = NoRequest
    /\ entry' = "none"
    /\ caller' = "none"
    /\ query' = <<>>
    /\ context_data' = EmptyContext
    /\ chat_history' = <<>>
    /\ iteration' = 0
    /\ execution_history' = <<>>
    /\ analysis_code' = Unbound
    /\ result' = <<>>
    /\ ret' = NoReturn
    /\ llm_calls' = ZeroCalls
    /\ exec_calls' = 0
    /\ last_llm' = NoLLM
    /\ system_prompt' = NoPrompt
    /\ messages' = NoMessages
    /\ judged' = NoVerdict
    /\ last_exec' = NoExec

\* handle_authentication; a missing key of data reads as None, which
\* `not user_id` treats like the empty string
HandleAuthentication ==
    /\ pc = "idle"
    /\ request.handler = "none"
    /\ \E user_id \in {"", "u1", "u9"}, profile_id \in {"", "p1"} :
           /\ credentials' = [user_id |-> user_id, profile_id |-> profile_id]
           /\ events' =
                  IF user_id = "" \/ profile_id = ""
                  THEN <<Event("auth_error",
                               <<"User ID and Profile ID are required">>)>>
                  ELSE IF "_validate_user" \notin QnABackendMethods
                  THEN <<Event("auth_error",
                               <<"Authentication failed: ">>
                                   \o BackendNoAttributeMsg("_validate_user"))>>
                  ELSE IF _validate_user(user_id)
                  THEN <<Event("authenticated",
                               <<user_id, profile_id, "Authentication successful">>)>>
                  ELSE <<Event("auth_error", <<"User not found">>)>>
    /\ received' = [handler |-> "authenticate", has_query |-> FALSE,
                    message |-> <<>>]
    /\ UNCHANGED <<pc, frame, last_exec, plots, clock, active_sessions,
                   sessions_created, voice_service, request, probes>>

\* handle_start_chat
StartChat ==
    /\ pc = "idle"
    /\ request.handler = "none"
    /\ sessions_created < MaxSessions
    /\ \E user_id \in {"", "u1"}, profile_id \in {"", "p1"} :
           IF user_id = "" \/ profile_id = ""
           THEN /\ events' = <<ErrorEvent(<<"User ID and Profile ID are required">>)>>
                /\ UNCHANGED <<active_sessions, sessions_created>>
           ELSE \E outcome \in {"ok", "context_error", "profile_error"} :
                    IF outcome = "context_error"
                    THEN /\ events' = <<ErrorEvent(<<"Failed to start chat: ">>
                                                   \o LLMErrorMsg)>>
                         /\ UNCHANGED <<active_sessions, sessions_created>>
                    ELSE \E ctx \in Contexts :
                         /\ sessions_created' = sessions_created + 1
                         /\ active_sessions' =
                                [sid \in DOMAIN active_sessions
                                         \cup {sessions_created + 1} |->
                                    IF sid = sessions_created + 1
                                    THEN NewSession(user_id, profile_id, ctx, now)
                                    ELSE active_sessions[sid]]
                         /\ events' =
                                IF outcome = "profile_error"
                                THEN <<ErrorEvent(<<"Failed to start chat: ">>
                                                  \o LLMErrorMsg)>>
                                ELSE <<Event("chat_started",
                                             <<"Chat session created successfully">>)>>
    /\ received' = [handler |-> "start_chat", has_query |-> FALSE, message |-> <<>>]
    /\ UNCHANGED <<pc, frame, last_exec, plots, clock, voice_service, request,
                   credentials, probes>>

\* handle_message, up to the first call the agent makes
HandleMessage ==
    /\ pc = "idle"
    /\ request.handler = "none"
    /\ \E sid \in 0..MaxSessions, message \in Queries :
           LET got == get_session(active_sessions, sid, now)
               user_msg == ChatMessage("user", message, "none")
               added == add_message(got.sessions, sid, user_msg, now)
           IN
           /\ received' = [handler |-> "send_message", has_query |-> TRUE,
                           message |-> message]
           /\ IF sid = 0 \/ message = <<>>
              THEN /\ events' = <<ErrorEvent(<<"Session ID and message are required">>)>>
                   /\ UNCHANGED <<pc, frame, last_exec, active_sessions, request>>
              ELSE IF ~got.found
              THEN /\ events' = <<ErrorEvent(<<"Session expired or not found">>)>>
                   /\ active_sessions' = got.sessions
                   /\ UNCHANGED <<pc, frame, last_exec, request>>
              ELSE IF ~validate_query(message)
              THEN /\ events' = <<ErrorEvent(<<"Invalid query detected">>)>>
                   /\ active_sessions' = got.sessions
                   /\ UNCHANGED <<pc, frame, last_exec, request>>
              ELSE /\ Len(got.sessions[sid].chat_history) + 2 <= MaxHistory
                   /\ active_sessions' = added
                   /\ events' = <<>>
                   /\ request' = [handler |-> "send_message", session_id |-> sid]
                   /\ BeginAnalyze("send_message", message,
                                   got.sessions[sid].context_data,
                                   FormatHistory(added[sid].chat_history))
    /\ UNCHANGED <<plots, clock, sessions_created, voice_service, credentials, probes>>

\* handle_message, from the return of analyze_with_context on
HandleMessageEnd ==
    /\ pc = "returned"
    /\ caller = "send_message"
    /\ IF ret.kind = "raised"
       THEN /\ events' = Append(events, ErrorEvent(AnalysisFailedPrefix \o ret.text))
            /\ UNCHANGED active_sessions
       ELSE /\ active_sessions' =
                   add_message(active_sessions, request.session_id,
                               ChatMessage("assistant", ret.text, "none"), now)
            /\ events' =
                   IF "sync_session_state" \in SessionManagerMethods
                   THEN Append(events, Event("message_response", ret.text))
                   ELSE Append(events,
                               ErrorEvent(AnalysisFailedPrefix
                                          \o NoAttributeMsg("sync_session_state")))
    /\ HandlerDone
    /\ UNCHANGED <<plots, clock, sessions_created, voice_service, received,
                   credentials, probes>>

\* handle_voice_message ends before any text was transcribed
VoiceRefused(message) ==
    /\ events' = <<ErrorEvent(message)>>
    /\ received' = [handler |-> "voice_message", has_query |-> FALSE,
                    message |-> <<>>]
    /\ UNCHANGED <<pc, frame, last_exec, active_sessions, request>>

\* handle_voice_message, up to the first call the agent makes
HandleVoiceMessage ==
    /\ pc = "idle"
    /\ request.handler = "none"
    /\ \E sid \in 0..MaxSessions, audio_data \in {"", "not base64", "base64"} :
           IF sid = 0 \/ audio_data = ""
           THEN VoiceRefused(<<"Session ID and audio data are required">>)
           ELSE IF audio_data = "not base64"
           THEN VoiceRefused(<<"Voice processing failed: ">> \o <<"Incorrect padding">>)
           ELSE IF ~voice_service
           THEN VoiceRefused(<<"Voice service not available">>)
           ELSE \/ VoiceRefused(<<"Failed to transcribe voice message">>)
                \/ \E transcribed_text \in Queries :
                       LET got == get_session(active_sessions, sid, now)
                           user_msg == ChatMessage("user", transcribed_text, "voice")
                           added == add_message(got.sessions, sid, user_msg, now)
                       IN
                       /\ received' = [handler |-> "voice_message",
                                       has_query |-> TRUE,
                                       message |-> transcribed_text]
                       /\ IF ~validate_query(transcribed_text)
                          THEN /\ events' = <<ErrorEvent(<<"Invalid query detected in voice message">>)>>
                               /\ UNCHANGED <<pc, frame, last_exec, active_sessions,
                                              request>>
                          ELSE IF ~got.found
                          THEN /\ events' = <<ErrorEvent(<<"Session expired or not found">>)>>
                               /\ active_sessions' = got.sessions
                               /\ UNCHANGED <<pc, frame, last_exec, request>>
                          ELSE /\ Len(got.sessions[sid].chat_history) + 2 <= MaxHistory
                               /\ active_sessions' = added
                               /\ events' = <<Event("voice_transcription",
                                                    transcribed_text)>>
                               /\ request' = [handler |-> "voice_message",
                                              session_id |-> sid]
                               /\ BeginAnalyze("voice_message", transcribed_text,
                                               got.sessions[sid].context_data,
                                               FormatHistory(added[sid].chat_history))
    /\ UNCHANGED <<plots, clock, sessions_created, voice_service, credentials, probes>>

\* handle_voice_message, from the return of analyze_with_context on
HandleVoiceMessageEnd ==
    /\ pc = "returned"
    /\ caller = "voice_message"
    /\ IF ret.kind = "raised"
       THEN /\ events' = Append(events, ErrorEvent(<<"Voice processing failed: ">>
                                                   \o ret.text))
            /\ UNCHANGED active_sessions
       ELSE /\ active_sessions' =
                   add_message(active_sessions, request.session_id,
                               ChatMessage("assistant", ret.text, "voice"), now)
            /\ events' =
                   IF "sync_session_state" \in SessionManagerMethods
                   THEN Append(events, Event("voice_response", ret.text))
                   ELSE Append(events,
                               ErrorEvent(<<"Voice processing failed: ">>
                                          \o NoAttributeMsg("sync_session_state")))
    /\ HandlerDone
    /\ UNCHANGED <<plots, clock, sessions_created, voice_service, received,
                   credentials, probes>>

\* time passes
Tick ==
    /\ ticks < MaxTicks
    /\ \E d \in TickSteps : now' = now + d
    /\ ticks' = ticks + 1
    /\ UNCHANGED <<pc, frame, last_exec, plots, server, probes>>

\* a long time passes
Sleep ==
    /\ ticks < MaxTicks
    /\ \E d \in SleepSteps : now' = now + d
    /\ ticks' = ticks + 1
    /\ UNCHANGED <<pc, frame, last_exec, plots, server, probes>>

\* SessionManager.get_session, called on its own
Call_get_session ==
    /\ pc = "idle"
    /\ request.handler = "none"
    /\ \E sid \in 1..MaxSessions :
           LET got == get_session(active_sessions, sid, now)
               existed == sid \in DOMAIN active_sessions
               kept == sid \in DOMAIN got.sessions
           IN  /\ active_sessions' = got.sessions
               /\ lookup' =
                      [called |-> TRUE,
                       at |-> now,
                       existed |-> existed,
                       elapsed |-> IF existed
                                   THEN now - active_sessions[sid].last_activity
                                   ELSE 0,
                       found |-> got.found,
                       kept |-> kept,
                       last_activity |-> IF kept
                                         THEN got.sessions[sid].last_activity
                                         ELSE 0]
    /\ UNCHANGED <<pc, frame, last_exec, plots, clock, sessions_created,
                   voice_service, request, events, received, credentials,
                   validation, extras>>

\* SessionManager.cleanup_expired_sessions, called on its own
Call_cleanup_expired_sessions ==
    /\ pc = "idle"
    /\ request.handler = "none"
    /\ active_sessions' = cleanup_expired_sessions(active_sessions, now)
    /\ UNCHANGED <<pc, frame, last_exec, plots, clock, sessions_created,
                   voice_service, request, events, received, credentials,
                   probes>>

\* the single-shot entry point and run_custom_code, called directly
Next ==
    \/ Call_analyze_with_context
    \/ Call_run_custom_code
    \/ Generate
    \/ Execute
    \/ Narrate
    \/ ReturnToCaller
    \/ Tick

Spec == InitAgent /\ [][Next]_vars

\* the iterative entry point, called directly
NextIter ==
    \/ Call_execute_analysis_iterative
    \/ LoopTest
    \/ Generate
    \/ Execute
    \/ Judge
    \/ ReturnToCaller

SpecIter == InitAgent /\ [][NextIter]_vars

\* the judge call while the LLM is out: llm.invoke raises inside
\* _check_completion, whose except clause answers False
JudgeOutage == Judge /\ judged'.kind = "llm_error"

\* the iterative loop during an outage of the judge LLM
NextOutage ==
    \/ Call_execute_analysis_iterative
    \/ LoopTest
    \/ Generate
    \/ Execute
    \/ JudgeOutage
    \/ ReturnToCaller

SpecOutage == InitAgent /\ [][NextOutage]_vars

\* code synthesis on its own: a call of either analysis entry point has
\* just been made with a conversation of some length, and the LLM's
\* replies are long
InitSynthesis ==
    /\ \E name \in {"analyze_with_context", "_execute_analysis_iterative"},
          hist \in SynthesisHistories :
           /\ entry = name
           /\ pc = (IF name = "analyze_with_context" THEN "generate" ELSE "loop")
           /\ chat_history = hist
    /\ caller = "direct"
    /\ query \in DirectQueries
    /\ context_data = SalesContext
    /\ iteration = 0
    /\ execution_history = <<>>
    /\ analysis_code = Unbound
    /\ result = <<>>
    /\ ret = NoReturn
    /\ llm_calls = ZeroCalls
    /\ exec_calls = 0
    /\ last_llm = NoLLM
    /\ system_prompt = NoPrompt
    /\ messages = NoMessages
    /\ judged = NoVerdict
    /\ last_exec = NoExec
    /\ fignums = {}
    /\ artifacts = {}
    /\ now = 0
    /\ ticks = 0
    /\ active_sessions = NoSessions
    /\ sessions_created = 0
    /\ voice_service = FALSE
    /\ request = NoRequest
    /\ events = <<>>
    /\ received = NoneReceived
    /\ credentials = NoCredentials
    /\ validation = NoValidation
    /\ lookup = NoLookup
    /\ ExtrasAtRest

GenerateLong == GenerateWith(LongOutcomes)

NextSynthesis ==
    \/ LoopTest
    \/ GenerateLong
    \/ Execute
    \/ Judge
    \/ Narrate
    \/ ReturnToCaller

SpecSynthesis == InitSynthesis /\ [][NextSynthesis]_vars

\* the backend server: QnABackend.__init__ leaves voice_service unset when
\* VoiceService() raises
InitServer ==
    /\ pc = "idle"
    /\ entry = "none"
    /\ caller = "none"
    /\ query = <<>>
    /\ context_data = EmptyContext
    /\ chat_history = <<>>
    /\ iteration = 0
    /\ execution_history = <<>>
    /\ analysis_code = Unbound
    /\ result = <<>>
    /\ ret = NoReturn
    /\ llm_calls = ZeroCalls
    /\ exec_calls = 0
    /\ last_llm = NoLLM
    /\ system_prompt = NoPrompt
    /\ messages = NoMessages
    /\ judged = NoVerdict
    /\ last_exec = NoExec
    /\ fignums = {}
    /\ artifacts = {}
    /\ now = 0
    /\ ticks = 0
    /\ active_sessions = NoSessions
    /\ sessions_created = 0
    /\ voice_service \in BOOLEAN
    /\ request = NoRequest
    /\ events = <<>>
    /\ received = NoneReceived
    /\ credentials = NoCredentials
    /\ validation = NoValidation
    /\ lookup = NoLookup
    /\ ExtrasAtRest

NextServer ==
    \/ StartChat
    \/ HandleMessage
    \/ HandleMessageEnd
    \/ HandleVoiceMessage
    \/ HandleVoiceMessageEnd
    \/ Generate
    \/ Execute
    \/ Narrate
    \/ Tick

SpecServer == InitServer /\ [][NextServer]_vars

\* authentication and the start of chats
NextAuth ==
    \/ HandleAuthentication
    \/ StartChat
    \/ Tick

SpecAuth == InitServer /\ [][NextAuth]_vars

\* the life of sessions in SessionManager
NextSession ==
    \/ StartChat
    \/ Call_get_session
    \/ Call_cleanup_expired_sessions
    \/ Tick
    \/ Sleep

SpecSession == InitServer /\ [][NextSession]_vars

(***************************************************************************)
(* validate_query as a function of its argument                            *)
(***************************************************************************)
\* longest query enumerated exhaustively
MaxQueryLen == 4

ValidationAlphabet == {"e", "E", "v", "a", "l", " "}

RECURSIVE TextsUpTo(_)
TextsUpTo(n) ==
    IF n = 0 THEN { <<>> }
    ELSE LET shorter == TextsUpTo(n - 1) IN
         shorter \cup {Append(t, c) : t \in {x \in shorter : Len(x) = n - 1},
                                      c \in ValidationAlphabet}

\* first letter in upper case, as a sentence starts
Capitalize(text) == <<UpperChar(Head(text))>> \o Tail(text)

\* a keyword as typed in a query, and texts that only resemble one
KeywordVariants(kw) ==
    {kw, Upper(kw), Capitalize(kw),
     SubSeq(kw, 1, Len(kw) - 1),
     <<Head(kw), " ">> \o Tail(kw)}

QueryPads == { <<>>, <<"x">>, <<" ">>, <<"r", "u", "n", " ">> }

ValidationQueries ==
    TextsUpTo(MaxQueryLen)
    \cup {pre \o core \o suf :
             pre \in QueryPads, suf \in QueryPads,
             core \in UNION {KeywordVariants(dangerous_keywords[k]) :
                                k \in 1..Len(dangerous_keywords)}}

InitValidate ==
    /\ pc = "idle"
    /\ entry = "none"
    /\ caller = "none"
    /\ query = <<>>
    /\ context_data = EmptyContext
    /\ chat_history = <<>>
    /\ iteration = 0
    /\ execution_history = <<>>
    /\ analysis_code = Unbound
    /\ result = <<>>
    /\ ret = NoReturn
    /\ llm_calls = ZeroCalls
    /\ exec_calls = 0
    /\ last_llm = NoLLM
    /\ system_prompt = NoPrompt
    /\ messages = NoMessages
    /\ judged = NoVerdict
    /\ last_exec = NoExec
    /\ fignums = {}
    /\ artifacts = {}
    /\ now = 0
    /\ ticks = 0
    /\ active_sessions = NoSessions
    /\ sessions_created = 0
    /\ voice_service = FALSE
    /\ request = NoRequest
    /\ events = <<>>
    /\ received = NoneReceived
    /\ credentials = NoCredentials
    /\ validation \in {[done |-> FALSE, query |-> q, ok |-> FALSE] :
                          q \in ValidationQueries}
    /\ lookup = NoLookup
    /\ ExtrasAtRest

Validate ==
    /\ ~validation.done
    /\ validation' = [done |-> TRUE, query |-> validation.query,
                      ok |-> validate_query(validation.query)]
    /\ UNCHANGED <<pc, frame, last_exec, plots, clock, server, lookup, extras>>

NextValidate == Validate

SpecValidate == InitValidate /\ [][NextValidate]_vars

(***************************************************************************)
(* _check_completion as a function of what the judge call comes back with  *)
(***************************************************************************)
JudgePads == { <<>>, <<" ">>, <<"\n", "\t">> }

JudgeWords ==
    { COMPLETE,
      Lower(COMPLETE),
      <<"C">> \o Tail(Lower(COMPLETE)),
      <<"I", "N">> \o COMPLETE,
      Lower(<<"I", "N">> \o COMPLETE),
      SubSeq(COMPLETE, 1, Len(COMPLETE) - 1),
      <<"N", "O", "T", " ">> \o COMPLETE,
      <<"C", "O", "M", " ", "P", "L", "E", "T", "E">>,
      <<"Y", "E", "S">>,
      <<>> }

JudgeTails == { <<>>, <<":", " ", "o", "k">>, <<"L", "Y">>, <<" ", "\n">> }

\* response.content of the judge call
JudgeTexts ==
    {pad \o word \o tail :
        pad \in JudgePads, word \in JudgeWords, tail \in JudgeTails}

JudgeInputs ==
    {[kind |-> "llm_error", reply |-> <<>>]}
    \cup {[kind |-> "ok", reply |-> r] : r \in JudgeTexts}

InitJudge ==
    /\ pc = "idle"
    /\ entry = "none"
    /\ caller = "none"
    /\ query = <<>>
    /\ context_data = EmptyContext
    /\ chat_history = <<>>
    /\ iteration = 0
    /\ execution_history = <<>>
    /\ analysis_code = Unbound
    /\ result = <<>>
    /\ ret = NoReturn
    /\ llm_calls = ZeroCalls
    /\ exec_calls = 0
    /\ last_llm = NoLLM
    /\ system_prompt = NoPrompt
    /\ messages = NoMessages
    /\ judged \in {[called |-> FALSE, kind |-> o.kind, reply |-> o.reply,
                     is_complete |-> FALSE] : o \in JudgeInputs}
    /\ last_exec = NoExec
    /\ fignums = {}
    /\ artifacts = {}
    /\ now = 0
    /\ ticks = 0
    /\ active_sessions = NoSessions
    /\ sessions_created = 0
    /\ voice_service = FALSE
    /\ request = NoRequest
    /\ events = <<>>
    /\ received = NoneReceived
    /\ credentials = NoCredentials
    /\ validation = NoValidation
    /\ lookup = NoLookup
    /\ ExtrasAtRest

Call_check_completion ==
    /\ ~judged.called
    /\ judged' = [called |-> TRUE, kind |-> judged.kind, reply |-> judged.reply,
                  is_complete |-> _check_completion([kind |-> judged.kind,
                                                     reply |-> judged.reply])]
    /\ UNCHANGED <<pc, entry, caller, query, context_data, chat_history,
                   iteration, execution_history, analysis_code, result, ret,
                   llm_calls, exec_calls, last_llm, system_prompt, messages, last_exec,
                   plots, clock, server, probes>>

NextJudge == Call_check_completion

SpecJudge == InitJudge /\ [][NextJudge]_vars

(***************************************************************************)
(* _extract_code as a function of the LLM's reply                          *)
(***************************************************************************)
\* the agent and the server as constructed, nothing called yet
BackendAtRest ==
    /\ pc = "idle"
    /\ entry = "none"
    /\ caller = "none"
    /\ query = <<>>
    /\ context_data = EmptyContext
    /\ chat_history = <<>>
    /\ iteration = 0
    /\ execution_history = <<>>
    /\ analysis_code = Unbound
    /\ result = <<>>
    /\ ret = NoReturn
    /\ llm_calls = ZeroCalls
    /\ exec_calls = 0
    /\ last_llm = NoLLM
    /\ system_prompt = NoPrompt
    /\ messages = NoMessages
    /\ judged = NoVerdict
    /\ last_exec = NoExec
    /\ fignums = {}
    /\ artifacts = {}
    /\ now = 0
    /\ ticks = 0
    /\ active_sessions = NoSessions
    /\ sessions_created = 0
    /\ voice_service = FALSE
    /\ request = NoRequest
    /\ events = <<>>
    /\ received = NoneReceived
    /\ credentials = NoCredentials
    /\ validation = NoValidation
    /\ lookup = NoLookup

InitExtract ==
    /\ BackendAtRest
    /\ extraction \in {[done |-> FALSE, content |-> c, code |-> <<>>] :
                           c \in ContentsUpTo(MaxContentLen)}
    /\ handlers = NoHandlers
    /\ context_dirs = NoDirs
    /\ context_call = NoContextCall
    /\ chat_files = EmptyFiles
    /\ writers = NoWriters
    /\ sys_stdout = Console
    /\ code_call = NoCodeCall

Call_extract_code ==
    /\ ~extraction.done
    /\ extraction' = [done |-> TRUE, content |-> extraction.content,
                      code |-> _extract_code(extraction.content)]
    /\ UNCHANGED <<pc, frame, last_exec, plots, clock, server, validation,
                   lookup, handlers, context_dirs, context_call, chat_files,
                   writers, sys_stdout, code_call>>

NextExtract == Call_extract_code

SpecExtract == InitExtract /\ [][NextExtract]_vars

(***************************************************************************)
(* send_message handlers running side by side on one session              *)
(***************************************************************************)
\* what analyze_with_context may hand back to a handler
Responses == { <<"The answer is 42.">>, AnalysisFailedPrefix \o LLMErrorMsg }

\* messages the clients send
ClientMessages == { <<"m", "a", "x">>, <<"m", "i", "n">>, <<"O", "p", "e", "n">> }

\* a session has been started for (u1, p1); no handler runs yet
InitConcurrent ==
    /\ pc = "idle"
    /\ entry = "none"
    /\ caller = "none"
    /\ query = <<>>
    /\ context_data = EmptyContext
    /\ chat_history = <<>>
    /\ iteration = 0
    /\ execution_history = <<>>
    /\ analysis_code = Unbound
    /\ result = <<>>
    /\ ret = NoReturn
    /\ llm_calls = ZeroCalls
    /\ exec_calls = 0
    /\ last_llm = NoLLM
    /\ system_prompt = NoPrompt
    /\ messages = NoMessages
    /\ judged = NoVerdict
    /\ last_exec = NoExec
    /\ fignums = {}
    /\ artifacts = {}
    /\ now = 0
    /\ ticks = 0
    /\ active_sessions = [sid \in {1} |-> NewSession("u1", "p1", SalesContext, 0)]
    /\ sessions_created = 1
    /\ voice_service = FALSE
    /\ request = NoRequest
    /\ events = <<Event("chat_started", <<"Chat session created successfully">>)>>
    /\ received = [handler |-> "start_chat", has_query |-> FALSE, message |-> <<>>]
    /\ credentials = NoCredentials
    /\ validation = NoValidation
    /\ lookup = NoLookup
    /\ extraction = NoExtraction
    /\ handlers = NoHandlers
    /\ context_dirs = NoDirs
    /\ context_call = NoContextCall
    /\ chat_files = EmptyFiles
    /\ writers = NoWriters
    /\ sys_stdout = Console
    /\ code_call = NoCodeCall

\* handle_message for client c, up to the call of analyze_with_context
handle_message_begin(c) ==
    /\ handlers[c].pc = "idle"
    /\ handlers[c].rounds < MaxRounds
    /\ \E message \in ClientMessages :
           LET sid == 1
               got == get_session(active_sessions, sid, now)
               user_msg == ChatMessage("user", message, "none")
               added == add_message(got.sessions, sid, user_msg, now)
           IN  IF ~got.found
               THEN /\ active_sessions' = got.sessions
                    /\ handlers' =
                           [handlers EXCEPT
                               ![c].rounds = @ + 1,
                               ![c].message = message,
                               ![c].events =
                                   <<ErrorEvent(<<"Session expired or not found">>)>>]
               ELSE IF ~validate_query(message)
               THEN /\ active_sessions' = got.sessions
                    /\ handlers' =
                           [handlers EXCEPT
                               ![c].rounds = @ + 1,
                               ![c].message = message,
                               ![c].events =
                                   <<ErrorEvent(<<"Invalid query detected">>)>>]
               ELSE /\ active_sessions' = added
                    /\ handlers' =
                           [handlers EXCEPT
                               ![c].pc = "analyzing",
                               ![c].message = message,
                               ![c].at = Len(added[sid].chat_history),
                               ![c].events = <<>>]
    /\ UNCHANGED <<pc, frame, last_exec, plots, clock, sessions_created,
                   voice_service, request, events, received, credentials,
                   validation, lookup, extraction, context_dirs, context_call,
                   chat_files, writers, sys_stdout, code_call>>

\* handle_message for client c, from the return of analyze_with_context on
handle_message_end(c) ==
    /\ handlers[c].pc = "analyzing"
    /\ \E response \in Responses :
           /\ active_sessions' =
                  add_message(active_sessions, 1,
                              ChatMessage("assistant", response, "none"), now)
           /\ handlers' =
                  [handlers EXCEPT
                      ![c].pc = "idle",
                      ![c].rounds = @ + 1,
                      ![c].events =
                          IF "sync_session_state" \in SessionManagerMethods
                          THEN <<Event("message_response", response)>>
                          ELSE <<ErrorEvent(AnalysisFailedPrefix
                                            \o NoAttributeMsg("sync_session_state"))>>]
    /\ UNCHANGED <<pc, frame, last_exec, plots, clock, sessions_created,
                   voice_service, request, events, received, credentials,
                   validation, lookup, extraction, context_dirs, context_call,
                   chat_files, writers, sys_stdout, code_call>>

NextConcurrent ==
    \/ \E c \in Clients : handle_message_begin(c)
    \/ \E c \in Clients : handle_message_end(c)

SpecConcurrent == InitConcurrent /\ [][NextConcurrent]_vars

(***************************************************************************)
(* ContextManager: the files of a profile, downloaded once a day           *)
(***************************************************************************)
ProductsKey == <<"p", "r", "o", "d", "u", "c", "t", "s", ".", "c", "s", "v">>

\* profile_config['data_sources'] of the profiles the API knows; the last
\* source of p1 has no url
DataSources(profile_id) ==
    IF profile_id = "p1"
    THEN << [filename |-> SalesKey, url |-> TRUE],
            [filename |-> ProductsKey, url |-> TRUE],
            [filename |-> <<"r", "e", "g", "i", "o", "n", "s", ".", "c", "s", "v">>, url |-> FALSE] >>
    ELSE << [filename |-> SalesKey, url |-> TRUE] >>

Profiles == {"p1", "p2"}

\* datetime.now().strftime("%Y-%m-%d"), as a day number
date_str(t) == t \div 86400

\* filename.endswith('.csv')
IsCsv(filename) ==
    /\ Len(filename) >= 4
    /\ SubSeq(filename, Len(filename) - 3, Len(filename)) = <<".", "c", "s", "v">>

\* the download loop of _download_context_files over sources[i..], with
\* the files written so far; the download of source fail_at fails
RECURSIVE DownloadFrom(_, _, _, _)
DownloadFrom(sources, i, files, fail_at) ==
    IF i > Len(sources) THEN [raised |-> FALSE, files |-> files]
    ELSE IF ~sources[i].url THEN DownloadFrom(sources, i + 1, files, fail_at)
    ELSE IF i = fail_at THEN [raised |-> TRUE, files |-> files]
    ELSE DownloadFrom(sources, i + 1, files \cup {sources[i].filename}, fail_at)

\* _download_context_files: whether it raised, and the directories after
\* it; the profile is fetched, the directory made, the sources downloaded
_download_context_files(dirs, profile_id, context_path, fetched, fail_at) ==
    IF ~fetched
    THEN [raised |-> TRUE, dirs |-> dirs]
    ELSE LET got == DownloadFrom(DataSources(profile_id), 1, {}, fail_at)
         IN  [raised |-> got.raised,
              dirs |-> [path \in DOMAIN dirs \cup {context_path} |->
                           IF path = context_path THEN got.files ELSE dirs[path]]]

\* _load_context_files: a dataframe for each csv file of the directory that
\* pd.read_csv can read
_load_context_files(dirs, context_path, unreadable) ==
    IF context_path \notin DOMAIN dirs
    THEN EmptyContext
    ELSE [filename \in {f \in dirs[context_path] : IsCsv(f)} \ unreadable |->
             "rows"]

\* get_context_for_profile: whether it raised, what it returned and the
\* directories after it
get_context_for_profile(dirs, profile_id, t, fetched, fail_at, unreadable) ==
    LET context_path == <<date_str(t), profile_id>> IN
    IF context_path \notin DOMAIN dirs
    THEN LET down == _download_context_files(dirs, profile_id, context_path,
                                             fetched, fail_at)
         IN  IF down.raised
             THEN [raised |-> TRUE, dirs |-> down.dirs,
                   context_data |-> EmptyContext]
             ELSE [raised |-> FALSE, dirs |-> down.dirs,
                   context_data |->
                       _load_context_files(down.dirs, context_path, unreadable)]
    ELSE [raised |-> FALSE, dirs |-> dirs,
          context_data |-> _load_context_files(dirs, context_path, unreadable)]

InitContext ==
    /\ BackendAtRest
    /\ extraction = NoExtraction
    /\ handlers = NoHandlers
    /\ context_dirs = NoDirs
    /\ context_call = NoContextCall
    /\ chat_files = EmptyFiles
    /\ writers = NoWriters
    /\ sys_stdout = Console
    /\ code_call = NoCodeCall

\* a call of get_context_for_profile: the API may fail to give the profile,
\* one download may fail, files may be unreadable
Call_get_context_for_profile ==
    /\ \E profile_id \in Profiles, fetched \in BOOLEAN,
          unreadable \in SUBSET {SalesKey, ProductsKey} :
       \E fail_at \in 0..Len(DataSources(profile_id)) :
           LET r == get_context_for_profile(context_dirs, profile_id, now,
                                            fetched, fail_at, unreadable)
           IN  /\ context_dirs' = r.dirs
               /\ context_call' =
                      [called |-> TRUE, profile_id |-> profile_id,
                       raised |-> r.raised, context_data |-> r.context_data,
                       unreadable |->
                           IF r.raised THEN {}
                           ELSE unreadable \cap r.dirs[<<date_str(now), profile_id>>]]
    /\ UNCHANGED <<pc, frame, last_exec, plots, clock, server, validation,
                   lookup, extraction, handlers, chat_files, writers,
                   sys_stdout, code_call>>

NextContext ==
    \/ Call_get_context_for_profile
    \/ Sleep

SpecContext == InitContext /\ [][NextContext]_vars

(***************************************************************************)
(* ChatStorage: add_message calls of requests served side by side          *)
(***************************************************************************)
\* _load_messages, _load_sessions: the dict in the file, {} when json.load
\* raises
_load(file) == IF file.ok THEN file.data ELSE EmptyDict

\* get_chat_history
get_chat_history(files, session_id) ==
    LET loaded == _load(files.messages) IN
    IF session_id \in DOMAIN loaded THEN loaded[session_id] ELSE <<>>

\* messages after `if session_id not in messages: messages[session_id] = []`
\* and `messages[session_id].append(message)`
Appended(loaded, session_id, message) ==
    [sid \in DOMAIN loaded \cup {session_id} |->
        IF sid = session_id
        THEN Append(IF sid \in DOMAIN loaded THEN loaded[sid] ELSE <<>>, message)
        ELSE loaded[sid]]

StorageSessions == {"s1", "s2"}

\* the message of the n-th call of a caller
StorageMessage(w, n, t) ==
    [type |-> "user", content |-> <<w, TurnNames[n]>>, timestamp |-> t]

\* the data service as started, after create_session for s1
InitStorage ==
    /\ BackendAtRest
    /\ extraction = NoExtraction
    /\ handlers = NoHandlers
    /\ context_dirs = NoDirs
    /\ context_call = NoContextCall
    /\ chat_files = [messages |-> JsonFile(EmptyDict),
                     sessions |-> JsonFile([sid \in {"s1"} |->
                                               [last_activity |-> 0]])]
    /\ writers = NoWriters
    /\ sys_stdout = Console
    /\ code_call = NoCodeCall

StorageFrame ==
    UNCHANGED <<pc, frame, last_exec, plots, clock, server, validation,
                lookup, extraction, handlers, context_dirs, context_call,
                sys_stdout, code_call>>

\* add_message: messages = self._load_messages(), the new key, the append
add_message_load(w) ==
    /\ writers[w].pc = "idle"
    /\ Len(writers[w].returned) < MaxAdds
    /\ \E session_id \in StorageSessions :
           LET message == StorageMessage(w, Len(writers[w].returned) + 1, now)
           IN  writers' =
                   [writers EXCEPT
                       ![w].pc = "loaded",
                       ![w].session_id = session_id,
                       ![w].message = message,
                       ![w].messages =
                           Appended(_load(chat_files.messages), session_id, message)]
    /\ UNCHANGED chat_files
    /\ StorageFrame

\* _save_messages: open(self.messages_file, 'w')
add_message_open(w) ==
    /\ writers[w].pc = "loaded"
    /\ chat_files' = [chat_files EXCEPT !.messages = Truncated]
    /\ writers' = [writers EXCEPT ![w].pc = "opened"]
    /\ StorageFrame

\* _save_messages: json.dump(messages, f)
add_message_dump(w) ==
    /\ writers[w].pc = "opened"
    /\ chat_files' = [chat_files EXCEPT !.messages = JsonFile(writers[w].messages)]
    /\ writers' = [writers EXCEPT ![w].pc = "saved"]
    /\ StorageFrame

\* add_message returns True
ReturnTrue(w) ==
    [writers EXCEPT
        ![w].pc = "idle",
        ![w].returned = Append(@, [session_id |-> writers[w].session_id,
                                   content |-> writers[w].message.content]),
        ![w].messages = EmptyDict,
        ![w].sessions = EmptyDict]

\* update_session_activity: sessions = self._load_sessions(); an unknown
\* session ends it
update_session_activity_load(w) ==
    /\ writers[w].pc = "saved"
    /\ LET sessions == _load(chat_files.sessions) IN
       IF writers[w].session_id \in DOMAIN sessions
       THEN writers' =
                [writers EXCEPT
                    ![w].pc = "touched",
                    ![w].sessions =
                        [sessions EXCEPT
                            ![writers[w].session_id].last_activity = now]]
       ELSE writers' = ReturnTrue(w)
    /\ UNCHANGED chat_files
    /\ StorageFrame

\* _save_sessions: open(self.sessions_file, 'w')
update_session_activity_open(w) ==
    /\ writers[w].pc = "touched"
    /\ chat_files' = [chat_files EXCEPT !.sessions = Truncated]
    /\ writers' = [writers EXCEPT ![w].pc = "touching"]
    /\ StorageFrame

\* _save_sessions: json.dump(sessions, f); add_message returns True
update_session_activity_dump(w) ==
    /\ writers[w].pc = "touching"
    /\ chat_files' = [chat_files EXCEPT !.sessions = JsonFile(writers[w].sessions)]
    /\ writers' = ReturnTrue(w)
    /\ StorageFrame

NextStorage ==
    \/ \E w \in Writers : add_message_load(w)
    \/ \E w \in Writers : add_message_open(w)
    \/ \E w \in Writers : add_message_dump(w)
    \/ \E w \in Writers : update_session_activity_load(w)
    \/ \E w \in Writers : update_session_activity_open(w)
    \/ \E w \in Writers : update_session_activity_dump(w)

SpecStorage == InitStorage /\ [][NextStorage]_vars

(***************************************************************************)
(* AdvancedQnAAgent._execute_analysis_code                                 *)
(***************************************************************************)
\* exec(code, {}, local_vars) while sys.stdout is the capture buffer: every
\* print writes its line there; local_vars binds the dataframe as df only
RECURSIVE ExecCaptured(_, _, _)
ExecCaptured(body, captured, figs) ==
    IF body = <<>>
    THEN [raised |-> FALSE, msg |-> <<>>, captured |-> captured, fignums |-> figs]
    ELSE LET st == Head(body) IN
         CASE st.op = "print" ->
                ExecCaptured(Tail(body),
                             captured \o builtin_print(st.args) \o <<"\n">>, figs)
           [] st.op = "figure" ->
                ExecCaptured(Tail(body), captured, figs \cup {NextFigNum(figs)})
           [] st.op = "setcolumn" ->
                [raised |-> TRUE, msg |-> NameErrorMsg(st.args[1]),
                 captured |-> captured, fignums |-> figs]
           [] st.op = "raise" ->
                [raised |-> TRUE, msg |-> st.msg, captured |-> captured,
                 fignums |-> figs]

ErrorExecutingPrefix == <<"Error executing analysis: ">>

\* _execute_analysis_code(code, df) entered with sys.stdout = stdout, the
\* buffer it makes being the n-th: what it returns and what it leaves
_execute_analysis_code(code, stdout, n, figs) ==
    LET old_stdout == stdout
        new_stdout == StringIO(n)
        prog == Compile(code)
        r == IF prog.compiles
             THEN ExecCaptured(prog.body, <<>>, figs)
             ELSE [raised |-> TRUE, msg |-> prog.error, captured |-> <<>>,
                   fignums |-> figs]
    IN  IF r.raised
        THEN [raised |-> TRUE, returned |-> ErrorExecutingPrefix \o r.msg,
              sys_stdout |-> new_stdout, fignums |-> r.fignums]
        ELSE [raised |-> FALSE, returned |-> r.captured,
              sys_stdout |-> old_stdout, fignums |-> r.fignums]

InitStdout ==
    /\ BackendAtRest
    /\ extraction = NoExtraction
    /\ handlers = NoHandlers
    /\ context_dirs = NoDirs
    /\ context_call = NoContextCall
    /\ chat_files = EmptyFiles
    /\ writers = NoWriters
    /\ sys_stdout = Console
    /\ code_call = NoCodeCall

Call_execute_analysis_code ==
    /\ code_call.calls < MaxExecs
    /\ \E code \in Programs :
           /\ FigRoom(code)
           /\ LET r == _execute_analysis_code(code, sys_stdout,
                                              code_call.calls + 1, fignums)
              IN  /\ sys_stdout' = r.sys_stdout
                  /\ fignums' = r.fignums
                  /\ code_call' = [calls |-> code_call.calls + 1, code |-> code,
                                   before |-> sys_stdout, raised |-> r.raised,
                                   returned |-> r.returned]
    /\ UNCHANGED <<pc, frame, last_exec, artifacts, clock, server, validation,
                   lookup, extraction, handlers, context_dirs, context_call,
                   chat_files, writers>>

NextStdout == Call_execute_analysis_code

SpecStdout == InitStdout /\ [][NextStdout]_vars

(***************************************************************************)
(* Properties                                                              *)
(***************************************************************************)
IterativeCall == entry = "_execute_analysis_iterative"

SingleShotCall == entry = "analyze_with_context"

CustomCodeCall == entry = "run_custom_code"

\* the cycle counts and the returned value of the iterative loop
C1_Cycles ==
    IterativeCall =>
        /\ iteration <= 5
        /\ llm_calls.synth <= 5
        /\ exec_calls <= 5
        /\ llm_calls.judge <= 5
        /\ llm_calls.synth <= iteration
        /\ exec_calls <= iteration
        /\ llm_calls.judge <= iteration
        /\ Len(execution_history) <= 5
        /\ ret.kind # "raised"
        /\ pc = "returned" => ret.kind = "value" /\ ret.text # <<>>

\* steps the iterative loop can still take: 4 per iteration left, plus the
\* steps left in the current iteration
C1_StepsLeft ==
    (5 - iteration) * 4
        + (CASE pc = "generate" -> 4
             [] pc = "execute" -> 3
             [] pc = "judge" -> 2
             [] pc = "loop" -> 1
             [] OTHER -> 0)

\* C1: whatever generation, execution and judging do on each iteration,
\* _execute_analysis_iterative terminates (every step of the call uses up
\* one of a bounded number of steps left), after at most 5 synthesis calls,
\* 5 executions and 5 judge calls, and what it returns is a non-empty string.
C1_BoundedIterations ==
    /\ []C1_Cycles
    /\ [][IterativeCall /\ pc # "returned" =>
             /\ C1_StepsLeft' < C1_StepsLeft
             /\ C1_StepsLeft' >= 0]_vars

\* five cycles, every one judged not complete, and a value returned
C1_Witness ==
    /\ IterativeCall
    /\ pc = "returned"
    /\ iteration = 5
    /\ llm_calls = [synth |-> 5, judge |-> 5, narr |-> 0]
    /\ exec_calls = 5
    /\ Len(execution_history) = 5
    /\ \A i \in 1..5 : execution_history[i].status = "incomplete"
    /\ ret.text # <<>>

\* C2: analyze_with_context never lets an exception reach its caller; it
\* returns the 'no data' message, a text starting with 'Analysis failed:',
\* the narration fallback, or the narrated answer.
C2_NoExceptionEscapes ==
    SingleShotCall =>
        /\ ret.kind # "raised"
        /\ pc = "returned" =>
              /\ ret.kind = "value"
              /\ \/ ret.text = <<"No context data available for analysis.">>
                 \/ StartsWith(ret.text, <<"Analysis failed: ">>)
                 \/ StartsWith(ret.text, <<"Here's what I found:">>)
                 \/ last_llm = [role |-> "narration", kind |-> "ok"]

\* the generated code raised and the caller got a text
C2_Witness ==
    /\ SingleShotCall
    /\ pc = "returned"
    /\ last_exec.called
    /\ last_exec.raised
    /\ ret.kind = "value"
    /\ StartsWith(ret.text, <<"Analysis failed: ">>)

\* C3: with an empty Dataset Context analyze_with_context returns the fixed
\* 'no data' message and makes no LLM call, no execution and no narration,
\* whatever the query and the history.
C3_EmptyContextSingleShot ==
    SingleShotCall /\ DOMAIN context_data = {} =>
        /\ pc = "returned"
        /\ ret = [kind |-> "value",
                  text |-> <<"No context data available for analysis.">>]
        /\ llm_calls = [synth |-> 0, judge |-> 0, narr |-> 0]
        /\ last_llm.role = "none"
        /\ exec_calls = 0
        /\ ~last_exec.called

C3_Witness ==
    /\ SingleShotCall
    /\ DOMAIN context_data = {}
    /\ pc = "returned"
    /\ query = <<"O", "p", "e", "n">>
    /\ chat_history # <<>>

\* C4: with an empty Dataset Context _execute_analysis_iterative makes no
\* synthesis call and no judge call and returns the fixed 'no data' message.
C4_EmptyContextIterative ==
    IterativeCall /\ DOMAIN context_data = {} =>
        /\ llm_calls.synth = 0
        /\ llm_calls.judge = 0
        /\ pc = "returned" =>
              ret.text = <<"No context data available for analysis.">>

\* the denylist as the specification words it
Denylist ==
    { <<"e", "x", "e", "c">>, <<"e", "v", "a", "l">>,
      <<"i", "m", "p", "o", "r", "t">>, <<"o", "p", "e", "n">>,
      <<"f", "i", "l", "e">>, <<"s", "y", "s", "t", "e", "m">>,
      <<"s", "u", "b", "p", "r", "o", "c", "e", "s", "s">> }

SameLetter(a, b) ==
    \/ a = b
    \/ \E i \in 1..26 : {a, b} = {LowerLetters[i], UpperLetters[i]}

OccursIgnoringCase(text, word) ==
    \E i \in 0..(Len(text) - Len(word)) :
        \A j \in 1..Len(word) : SameLetter(text[i + j], word[j])

EmptyOrWhitespace(text) ==
    \A i \in 1..Len(text) : text[i] \in {" ", "\t", "\n"}

MustBeRejected(text) ==
    \/ EmptyOrWhitespace(text)
    \/ \E word \in Denylist : OccursIgnoringCase(text, word)

\* C5: validate_query returns False exactly for the queries that are empty,
\* whitespace-only, or contain a denylisted keyword anywhere in any case,
\* and True for every other query.
C5_ValidateQuery ==
    validation.done => (validation.ok <=> ~MustBeRejected(validation.query))

\* a query rejected for a keyword that appears in it only in another case
C5_Witness ==
    /\ validation.done
    /\ ~validation.ok
    /\ ~EmptyOrWhitespace(validation.query)
    /\ \A word \in Denylist : ~Contains(validation.query, word)

ChatHistories(sessions) ==
    [sid \in DOMAIN sessions |-> sessions[sid].chat_history]

\* a step in which send_message or voice_message is handled for a query
\* that must be rejected
RejectedQueryStep ==
    /\ pc = "idle"
    /\ request.handler = "none"
    /\ now' = now
    /\ received'.handler \in {"send_message", "voice_message"}
    /\ received'.has_query
    /\ MustBeRejected(received'.message)

\* C6: a send_message or voice_message whose query fails validation ends at
\* once with a single 'error' event: the agent is not called, no LLM call is
\* made, and no entry is added to any session's chat history.
C6_InvalidQueryRejected ==
    [][RejectedQueryStep =>
          /\ Len(events') = 1
          /\ events'[1].name = "error"
          /\ pc' = "idle"
          /\ entry' = "none"
          /\ request'.handler = "none"
          /\ llm_calls' = [synth |-> 0, judge |-> 0, narr |-> 0]
          /\ exec_calls' = 0
          /\ \A sid \in DOMAIN active_sessions' :
                 /\ sid \in DOMAIN active_sessions
                 /\ active_sessions'[sid].chat_history
                        = active_sessions[sid].chat_history]_vars

\* a denylisted query was sent to a live session that has a history
C6_Witness ==
    /\ pc = "idle"
    /\ received.handler = "send_message"
    /\ received.message = <<"O", "p", "e", "n">>
    /\ events = <<[name |-> "error", payload |-> <<"Invalid query detected">>]>>
    /\ \E sid \in DOMAIN active_sessions :
           Len(active_sessions[sid].chat_history) = 2

\* C7: after any call of _execute_analysis, returned or raised, no figure
\* is open.
C7_FiguresDrained == last_exec.called => Cardinality(fignums) = 0

\* what the print calls of a program write, one line per call in call
\* order, wherever the call is made
RECURSIVE PrintedLines(_)
PrintedLines(body) ==
    IF body = <<>> THEN <<>>
    ELSE IF Head(body).op = "print"
    THEN <<Join(Head(body).args, <<" ">>)>> \o PrintedLines(Tail(body))
    ELSE PrintedLines(Tail(body))

\* C8: when _execute_analysis returns, its result is everything the code
\* printed (at top level or inside its functions), one line per print call
\* in call order, or the fixed 'Analysis completed...' message when that
\* text is blank.
C8_AllOutputCaptured ==
    last_exec.called /\ ~last_exec.raised =>
        LET printed == Join(PrintedLines(Compile(last_exec.code).body), <<"\n">>)
        IN  last_exec.result =
                IF EmptyOrWhitespace(printed)
                THEN <<"Analysis completed. Check the artifacts directory for any generated visualizations.">>
                ELSE printed

RECURSIVE FirstRaise(_)
FirstRaise(body) ==
    IF body = <<>> THEN [raises |-> FALSE, msg |-> <<>>]
    ELSE IF Head(body).op = "raise" THEN [raises |-> TRUE, msg |-> Head(body).msg]
    ELSE FirstRaise(Tail(body))

\* the exception a program raises when run, if any
ProgramFailure(code) ==
    LET prog == Compile(code) IN
    IF ~prog.compiles THEN [raises |-> TRUE, msg |-> prog.error]
    ELSE FirstRaise(prog.body)

\* C9: when the generated code raises (a syntax error included),
\* _execute_analysis raises with the original message and the code is run
\* once; run_custom_code returns 'Code execution failed: ' + message and
\* analyze_with_context returns 'Analysis failed: ' + message, so the
\* message is a substring of what the caller receives.
C9_ErrorMessagePreserved ==
    (SingleShotCall \/ CustomCodeCall)
    /\ last_exec.called /\ ProgramFailure(last_exec.code).raises =>
        LET message == ProgramFailure(last_exec.code).msg IN
        /\ last_exec.raised
        /\ last_exec.msg = message
        /\ exec_calls = 1
        /\ pc = "returned"
        /\ ret.kind = "value"
        /\ Contains(ret.text, message)
        /\ CustomCodeCall => ret.text = <<"Code execution failed: ">> \o message
        /\ SingleShotCall => ret.text = <<"Analysis failed: ">> \o message

\* run_custom_code was given 'def f(:'
C9_Witness ==
    /\ CustomCodeCall
    /\ pc = "returned"
    /\ last_exec.code = "def f(:"
    /\ ret.text = <<"Code execution failed: ", "invalid syntax (<string>, line 1)">>

\* C10: when producing the narration fails (prompt construction or the LLM
\* call), _generate_conversational_response returns the lead-in 'Here's
\* what I found:' followed by the raw execution result, and does not raise.
C10_NarrationFallback ==
    SingleShotCall /\ pc = "returned"
    /\ last_llm.role = "narration" /\ last_llm.kind # "ok" =>
        /\ ret.kind = "value"
        /\ ret.text = <<"Here's what I found:", "\n", "\n">> \o last_exec.result
        /\ Contains(ret.text, last_exec.result)
        /\ last_exec.result # <<>>

\* the narration LLM call failed after the code printed 42
C10_Witness ==
    /\ SingleShotCall
    /\ pc = "returned"
    /\ last_llm = [role |-> "narration", kind |-> "llm_error"]
    /\ last_exec.result = <<"4", "2">>
    /\ ret.text = <<"Here's what I found:", "\n", "\n", "4", "2">>

\* C11: when the loop ends at its ceiling (no verdict of complete on the
\* fifth iteration), the value returned is the result field of the fifth
\* Execution Attempt record, as it stands; the text 'Analysis failed after
\* maximum iterations' is never returned.
C11_CeilingReturnsLastAttempt ==
    IterativeCall /\ pc = "returned" =>
        /\ ret.text # <<"Analysis failed after maximum iterations">>
        /\ ~judged.is_complete =>
              /\ iteration = 5
              /\ Len(execution_history) = 5
              /\ execution_history[5].iteration = 5
              /\ ret = [kind |-> "value", text |-> execution_history[5].result]

\* the fifth attempt ended in an error and its record's result came back
C11_Witness ==
    /\ IterativeCall
    /\ pc = "returned"
    /\ ~judged.called
    /\ Len(execution_history) = 5
    /\ execution_history[5].status = "error"
    /\ execution_history[4].status = "incomplete"
    /\ ret.text = <<"Error: ", "boom">>

\* C12: for every dataset key, the variable name the synthesis prompt
\* documents for it (the 'Variable name' entry of the context summary, and
\* the entry of the dataframe-name list) is a name _execute_analysis binds,
\* and binds to that dataset.
C12_DocumentedNamesAreBound ==
    system_prompt.sent /\ last_exec.called =>
        \A filename \in DOMAIN last_exec.context_before :
            LET in_summary == system_prompt.context_summary[filename].variable_name
                in_list == system_prompt.dataframe_names[filename]
            IN  /\ in_list \in DOMAIN last_exec.local_vars
                /\ last_exec.local_vars[in_list] = filename
                /\ in_summary \in DOMAIN last_exec.local_vars
                /\ last_exec.local_vars[in_summary] = filename

\* C13: a call of the agent leaves the Dataset Context as it was: the same
\* dataset names, each with the same contents, whatever code was executed.
C13_ContextOnlyRead ==
    last_exec.called => context_data = last_exec.context_before

\* C14: a call of _execute_analysis that returns with n figures open at the
\* end of the code (and saves them all) adds exactly n files to the output
\* directory and leaves the files of earlier calls in place.
C14_OneFilePerFigure ==
    last_exec.called /\ ~last_exec.raised /\ last_exec.fignums = {} =>
        /\ last_exec.files_before \subseteq artifacts
        /\ Cardinality(artifacts \ last_exec.files_before)
               = Cardinality(last_exec.open_figs)

\* C15: analyze_with_context with a non-empty context generates code at most
\* once (generation starts only when the call starts), executes at most
\* once and invokes the LLM at most twice; a failed generation is followed
\* by neither execution nor narration, a failed execution by no narration.
C15_SingleShotOnce ==
    /\ [](SingleShotCall /\ DOMAIN context_data # {} =>
            /\ llm_calls.synth <= 1
            /\ llm_calls.narr <= 1
            /\ llm_calls.judge = 0
            /\ llm_calls.synth + llm_calls.narr + llm_calls.judge <= 2
            /\ exec_calls <= 1
            /\ last_llm.role = "synthesis" /\ last_llm.kind # "ok" =>
                  /\ pc = "returned"
                  /\ exec_calls = 0
                  /\ ~last_exec.called
                  /\ llm_calls.narr = 0
            /\ last_exec.called /\ last_exec.raised =>
                  /\ pc = "returned"
                  /\ last_llm.role = "synthesis"
                  /\ llm_calls.narr = 0)
    /\ [][SingleShotCall /\ pc # "generate" => pc' # "generate"]_vars
    /\ [][SingleShotCall /\ pc = "generate" /\ last_llm' # last_llm =>
             pc' # "generate"]_vars
    /\ [][SingleShotCall /\ pc = "returned" => pc' \in {"returned", "idle"}]_vars

\* the synthesis LLM call failed and the call ended there
C15_Witness ==
    /\ SingleShotCall
    /\ DOMAIN context_data # {}
    /\ pc = "returned"
    /\ last_llm = [role |-> "synthesis", kind |-> "llm_error"]
    /\ llm_calls = [synth |-> 1, judge |-> 0, narr |-> 0]
    /\ exec_calls = 0
    /\ ret.text = <<"Analysis failed: ", "Connection error.">>

\* C16: when analyze_with_context has answered a send_message that passed
\* validation in a live session, the handler emits 'message_response' with
\* the agent's response and emits no 'error' event for that message.
C16_MessageAnswered ==
    [][pc = "returned" /\ caller = "send_message" /\ pc' = "idle" =>
          /\ \E i \in 1..Len(events') :
                 /\ events'[i].name = "message_response"
                 /\ events'[i].payload = ret.text
          /\ \A i \in 1..Len(events') : events'[i].name # "error"]_vars

\* C17: authenticate with the user_id of an existing user and a non-empty
\* profile_id is answered with 'authenticated' echoing both; with an empty
\* or missing user_id or profile_id it is answered with 'auth_error' and no
\* 'authenticated'.
C17_Authentication ==
    received.handler = "authenticate" =>
        /\ credentials.user_id = "u1" /\ credentials.profile_id # "" =>
              /\ Len(events) = 1
              /\ events[1].name = "authenticated"
              /\ events[1].payload[1] = credentials.user_id
              /\ events[1].payload[2] = credentials.profile_id
        /\ credentials.user_id = "" \/ credentials.profile_id = "" =>
              /\ \E i \in 1..Len(events) : events[i].name = "auth_error"
              /\ \A i \in 1..Len(events) : events[i].name # "authenticated"

\* C18: get_session on a session whose last activity is more than 900
\* seconds ago, however long, returns None and removes the session; on a
\* session with less elapsed time it returns the session and sets its
\* last_activity to the time of the call.
C18_SessionTimeout ==
    lookup.called /\ lookup.existed =>
        IF lookup.elapsed > 900
        THEN ~lookup.found /\ ~lookup.kept
        ELSE lookup.found /\ lookup.kept /\ lookup.last_activity = lookup.at

\* the token COMPLETE in any case, after leading whitespace
SaysComplete(text) ==
    LET token == <<"C", "O", "M", "P", "L", "E", "T", "E">> IN
    \E n \in 0..Len(text) :
        /\ \A i \in 1..n : text[i] \in {" ", "\t", "\n"}
        /\ Len(text) >= n + Len(token)
        /\ \A j \in 1..Len(token) : SameLetter(text[n + j], token[j])

\* C19: the loop follows START -> GENERATE -> EXECUTE -> JUDGE ->
\* {DONE | GENERATE}: execution only after the iteration's generation
\* succeeded, judging only after the iteration's execution succeeded, an
\* early return only right after a judge verdict of COMPLETE and with that
\* iteration's execution result, and after every other outcome the next
\* generation, until the ceiling of 5.
C19_LoopStateMachine ==
    [][IterativeCall =>
          /\ pc' = "generate" =>
                pc = "loop" /\ iteration < 5 /\ iteration' = iteration + 1
          /\ pc' = "execute" =>
                /\ pc = "generate"
                /\ last_llm' = [role |-> "synthesis", kind |-> "ok"]
                /\ iteration' = iteration
          /\ pc' = "judge" =>
                /\ pc = "execute"
                /\ last_exec'.called /\ ~last_exec'.raised
                /\ last_exec'.code = analysis_code
                /\ iteration' = iteration
          /\ pc' = "returned" =>
                \/ /\ pc = "judge"
                   /\ judged'.kind = "ok"
                   /\ SaysComplete(judged'.reply)
                   /\ ret' = [kind |-> "value", text |-> last_exec.result]
                \/ pc = "loop" /\ iteration = 5
          /\ pc = "loop" /\ iteration < 5 => pc' = "generate"
          /\ pc = "generate" /\ last_llm'.kind # "ok" => pc' = "loop"
          /\ pc = "execute" /\ last_exec'.raised => pc' = "loop"
          /\ pc = "judge" /\ ~(judged'.kind = "ok" /\ SaysComplete(judged'.reply)) =>
                pc' = "loop"
          /\ pc' = "loop" => Len(execution_history') = iteration]_vars

\* the judge said COMPLETE in the third iteration, after a failed execution
\* and a verdict of INCOMPLETE
C19_Witness ==
    /\ IterativeCall
    /\ pc = "returned"
    /\ judged.is_complete
    /\ iteration = 3
    /\ Len(execution_history) = 2
    /\ execution_history[1].status = "error"
    /\ execution_history[2].status = "incomplete"
    /\ ret.text = last_exec.result

\* C20: _check_completion returns True exactly when the judge call succeeds
\* and its reply, trimmed and upper-cased, begins with COMPLETE; INCOMPLETE,
\* any other reply and a failed call yield False; it always returns a
\* boolean.
C20_CheckCompletion ==
    judged.called =>
        /\ judged.is_complete \in BOOLEAN
        /\ judged.is_complete <=> (judged.kind = "ok" /\ SaysComplete(judged.reply))
        /\ judged.kind # "ok" => ~judged.is_complete
        /\ StartsWith(judged.reply, <<"I", "N", "C", "O", "M", "P", "L", "E", "T", "E">>) =>
              ~judged.is_complete

\* a reply in lower case after whitespace counted as complete
C20_Witness ==
    /\ judged.called
    /\ judged.is_complete
    /\ judged.reply = <<" ", "c", "o", "m", "p", "l", "e", "t", "e", ":", " ", "o", "k">>

\* the statuses recorded by the attempts of the call in progress
Statuses == {execution_history[i].status : i \in DOMAIN execution_history}

\* C21: while the judge call fails on every iteration, the loop never
\* returns before its fifth iteration; a failed judge call appends an
\* attempt with status 'incomplete' holding that iteration's execution
\* result, and the loop goes on; when generation and execution succeeded
\* throughout, the call returns after exactly 5 iterations with 5 attempts
\* recorded, all 'incomplete', and returns the fifth execution result.
C21_JudgeOutage ==
    /\ [](IterativeCall /\ pc = "returned" =>
            /\ iteration = 5
            /\ Len(execution_history) = 5
            /\ llm_calls.synth = 5 /\ exec_calls = 5 /\ llm_calls.judge = 5 =>
                  /\ Statuses = {"incomplete"}
                  /\ ret = Returned(result)
                  /\ ret.text = execution_history[5].result)
    /\ [][pc = "judge" =>
            /\ pc' = "loop"
            /\ ret' = ret
            /\ execution_history' =
                   Append(execution_history,
                          [iteration |-> iteration, code |-> analysis_code,
                           result |-> last_exec.result,
                           status |-> "incomplete"])]_vars

\* five iterations generated and executed, five judge calls failed
C21_Witness ==
    /\ IterativeCall
    /\ pc = "returned"
    /\ llm_calls = [synth |-> 5, judge |-> 5, narr |-> 0]
    /\ exec_calls = 5
    /\ Statuses = {"incomplete"}
    /\ ret.text = <<"4", "2">>

\* C23: the record an iteration appends holds the code generated in that
\* iteration, and 'N/A' when the iteration's generation failed.
C23_AttemptCode ==
    [][IterativeCall /\ Len(execution_history') = Len(execution_history) + 1 =>
          LET attempt == execution_history'[Len(execution_history')]
          IN  IF pc = "generate"
              THEN attempt.code = "N/A"
              ELSE /\ attempt.code = analysis_code
                   /\ last_exec'.code = analysis_code]_vars

\* the first n characters of a text
FirstChars(text, n) ==
    [i \in 1..(IF Len(text) < n THEN Len(text) ELSE n) |-> text[i]]

\* a snippet shows exactly the first 200 characters of a text
ShowsFirst200(snippet, text) ==
    /\ Len(snippet) = Len(FirstChars(text, 200)) + 3
    /\ SubSeq(snippet, 1, Len(snippet) - 3) = FirstChars(text, 200)

IsHistoryMessage(m) == m.content = <<"execution_history_context">>

\* C22: at the start of iteration k the attempt history holds exactly k-1
\* records numbered 1..k-1, each 'incomplete' or 'error'; the k-th synthesis
\* call reports k-1 attempts and shows the last min(3, k-1) of them, code
\* and result cut to their first 200 characters; for k = 1 it sends no
\* history message.
C22_HistoryFedBack ==
    /\ [](IterativeCall /\ pc = "generate" =>
            /\ iteration \in 1..5
            /\ Len(execution_history) = iteration - 1
            /\ \A i \in 1..Len(execution_history) :
                   /\ execution_history[i].iteration = i
                   /\ execution_history[i].status \in {"incomplete", "error"})
    /\ [][IterativeCall /\ pc = "generate" /\ messages' # NoMessages =>
            LET k == iteration
                shown == IF k - 1 < 3 THEN k - 1 ELSE 3
            IN  IF k = 1
                THEN \A i \in 1..Len(messages') : ~IsHistoryMessage(messages'[i])
                ELSE /\ IsHistoryMessage(messages'[2])
                     /\ messages'[2].attempt_count = k - 1
                     /\ Len(messages'[2].execution_history) = shown
                     /\ \A j \in 1..shown :
                            LET attempt == execution_history[k - 1 - shown + j]
                                line == messages'[2].execution_history[j]
                            IN  /\ line.iteration = k - 1 - shown + j
                                /\ line.status = attempt.status
                                /\ ShowsFirst200(line.code, CodeChars(attempt.code))
                                /\ ShowsFirst200(line.result, Chars(attempt.result))]_vars

\* the fifth synthesis call was told of four attempts and shown three, one
\* of them with code and result cut, one with a short result
C22_Witness ==
    /\ IterativeCall
    /\ pc = "execute"
    /\ iteration = 5
    /\ messages[2].attempt_count = 4
    /\ Len(messages[2].execution_history) = 3
    /\ execution_history[4].code = LongProgram
    /\ Len(CodeChars(execution_history[4].code)) > 200
    /\ Len(messages[2].execution_history[3].code) = 203
    /\ Len(messages[2].execution_history[3].result) = 203
    /\ messages[2].execution_history[2].result = <<"4", "2", ".", ".", ".">>

\* the turns of the conversation that may be passed on: user and assistant
\* turns among the 6 most recent
RecentTurns ==
    {i \in 1..Len(chat_history) :
        /\ i > Len(chat_history) - 6
        /\ chat_history[i].role \in {"user", "assistant"}}

\* C24: the list handed to the synthesis LLM starts with the system prompt
\* and ends with the current query; between them stand the attempt-history
\* message, if there is one, and then the user and assistant turns among
\* the 6 most recent turns of the conversation, in their order and with
\* their roles; no older turn is included.
C24_MessageList ==
    messages # NoMessages =>
        LET n == Len(messages)
            first == IF n >= 2 /\ IsHistoryMessage(messages[2]) THEN 3 ELSE 2
            turns == SubSeq(messages, first, n - 1)
        IN  /\ n >= 2
            /\ messages[1].type = "system"
            /\ messages[n] = [type |-> "human", content |-> query,
                              attempt_count |-> 0, execution_history |-> <<>>]
            /\ \A i \in 1..n : IsHistoryMessage(messages[i]) => i = 2
            /\ Len(turns) <= 6
            /\ Len(turns) = Cardinality(RecentTurns)
            /\ \A i \in RecentTurns :
                   LET j == Cardinality({x \in RecentTurns : x <= i})
                   IN  /\ turns[j].content = chat_history[i].content
                       /\ turns[j].type =
                              (IF chat_history[i].role = "user" THEN "human" ELSE "ai")

\* a conversation of 8 turns: turns 3 to 8 were sent after the attempt
\* history, turns 1 and 2 were not
C24_Witness ==
    /\ Len(chat_history) = 8
    /\ Len(messages) = 9
    /\ IsHistoryMessage(messages[2])
    /\ messages[3].content = <<"t", "3">>
    /\ messages[3].type = "human"
    /\ messages[8].content = <<"t", "8">>
    /\ messages[8].type = "ai"

\* the session's history as it stood before the message being handled
EarlierTurns ==
    LET log == active_sessions[request.session_id].chat_history
    IN  SubSeq(log, 1, Len(log) - 1)

\* C26: when the synthesis LLM is called for a send_message or
\* voice_message, the history the server gave analyze_with_context holds
\* exactly the turns that came before the current message, and, unless an
\* earlier turn had the same text, the current query stands exactly once
\* among the messages sent.
C26_QueryOnce ==
    /\ caller \in {"send_message", "voice_message"}
    /\ messages # NoMessages
    /\ request.session_id \in DOMAIN active_sessions
    => /\ Len(chat_history) = Len(EarlierTurns)
       /\ \A i \in 1..Len(EarlierTurns) :
              /\ chat_history[i].role = EarlierTurns[i].type
              /\ chat_history[i].content = EarlierTurns[i].content
       /\ (\A i \in 1..Len(EarlierTurns) : EarlierTurns[i].content # query)
          => Cardinality({i \in 1..Len(messages) :
                            /\ messages[i].type = "human"
                            /\ messages[i].content = query}) = 1

\* the lines of the reply handed to _extract_code
ReplyLines == Split(extraction.content)

BlankLine(line) == \A i \in 1..Len(line) : line[i] \in {" ", "\t", "\n"}

ImportLine(line) ==
    \E i \in 1..Len(line) :
        /\ line[i] \in {"import os", "from m import f"}
        /\ \A j \in 1..(i - 1) : line[j] \in {" ", "\t"}

\* the run of lines from the first import or from line to just before the
\* first blank line after it
ImportRun ==
    LET starts == {i \in 1..Len(ReplyLines) : ImportLine(ReplyLines[i])} IN
    IF starts = {} THEN <<>>
    ELSE LET first == CHOOSE i \in starts : \A j \in starts : i <= j
             blanks == {i \in (first + 1)..Len(ReplyLines) : BlankLine(ReplyLines[i])}
             stop == IF blanks = {} THEN Len(ReplyLines) + 1
                     ELSE CHOOSE i \in blanks : \A j \in blanks : i <= j
         IN  SubSeq(ReplyLines, first, stop - 1)

\* where the first fenced block of the reply opens and closes, if it does
BlockOpens ==
    {i \in 1..Len(extraction.content) : extraction.content[i] = "<fence>python"}

BlockOpen == CHOOSE i \in BlockOpens : \A j \in BlockOpens : i <= j

BlockCloses ==
    {i \in (BlockOpen + 1)..Len(extraction.content) :
        extraction.content[i] \in {"<fence>", "<fence>python"}}

BlockClose == CHOOSE i \in BlockCloses : \A j \in BlockCloses : i <= j

HasBlock == BlockOpens # {} /\ BlockCloses # {}

\* C25: on a reply without a fenced python block _extract_code returns
\* the lines from the first one beginning with 'import ' or 'from ', that
\* line included, to just before the first blank line after it; on a reply
\* with such a block it returns the trimmed content of the first block.
C25_ExtractCode ==
    extraction.done =>
        IF HasBlock
        THEN extraction.code =
                 Strip(SubSeq(extraction.content, BlockOpen + 1, BlockClose - 1))
        ELSE extraction.code = Join(ImportRun, <<"\n">>)

\* the chat history of the session the clients share
SharedLog == active_sessions[1].chat_history

\* C27: however send_message handlers on one live session interleave, the
\* session's chat history only grows at its end, user and assistant
\* entries alternate in it starting with a user entry, and the assistant
\* entry a handler adds stands right after the user entry it answers.
C27_AlternatingHistory ==
    /\ [](\A i \in 1..Len(SharedLog) :
              SharedLog[i].type = (IF i % 2 = 1 THEN "user" ELSE "assistant"))
    /\ [][/\ Len(SharedLog') >= Len(SharedLog)
           /\ SubSeq(SharedLog', 1, Len(SharedLog)) = SharedLog
           /\ \A c \in Clients :
                  handlers[c].pc = "analyzing" /\ handlers'[c].pc = "idle" =>
                      Len(SharedLog') = handlers[c].at + 1]_vars

\* the files of the configured data sources of a profile that have a URL
SourcesWithUrl(profile_id) ==
    {DataSources(profile_id)[i].filename : i \in
        {j \in 1..Len(DataSources(profile_id)) : DataSources(profile_id)[j].url}}

\* C29: when get_context_for_profile returns normally (and every file on
\* disk can be read), the returned context holds one dataset for every
\* configured data source of the profile that has a URL, whatever happened
\* in earlier calls for the profile that day.
C29_CompleteContext ==
    context_call.called /\ ~context_call.raised /\ context_call.unreadable = {} =>
        DOMAIN context_call.context_data = SourcesWithUrl(context_call.profile_id)

\* the places at which a message stands in the stored history of its session
PlacesOf(added) ==
    {i \in 1..Len(get_chat_history(chat_files, added.session_id)) :
        get_chat_history(chat_files, added.session_id)[i].content = added.content}

\* C28: once the add_message calls made so far have all returned True, each
\* message added stands in get_chat_history of its session, and the
\* messages of one caller stand there in the order the caller added them.
C28_NoLostMessage ==
    (\A w \in Writers : writers[w].pc = "idle") =>
        \A w \in Writers :
            /\ \A k \in 1..Len(writers[w].returned) :
                   PlacesOf(writers[w].returned[k]) # {}
            /\ \A k1, k2 \in 1..Len(writers[w].returned) :
                   /\ k1 < k2
                   /\ writers[w].returned[k1].session_id
                          = writers[w].returned[k2].session_id
                   => \A i \in PlacesOf(writers[w].returned[k1]),
                         j \in PlacesOf(writers[w].returned[k2]) : i < j

\* C30: after _execute_analysis_code has returned, with the code's output
\* or with the error text, sys.stdout is the stream it was when the call
\* was made.
C30_StdoutRestored ==
    code_call.calls > 0 => sys_stdout = code_call.before

====
